---- MODULE Spec2Model ----
(***************************************************************************)
(* Model of osm-to-3dprint: the mesh arena (GeometryProcessor), the STL    *)
(* serializer and validator (STLGenerator) and the generation pipeline     *)
(* (OSMToSTL.processLayer / generate).                                     *)
(*                                                                         *)
(* Conventions.  A JavaScript array is a TLA+ sequence; JavaScript index i *)
(* is position i+1 of the sequence.  Face indices are stored as the code   *)
(* stores them (0-based).  A 2D point is <<x, y>>, a vertex <<x, y, z>>.   *)
(***************************************************************************)
EXTENDS Integers, Sequences, FiniteSets, TLC

VARIABLES
    vertices,      \* GeometryProcessor.vertices
    faces,         \* GeometryProcessor.faces
    last,          \* the operation that produced this state, with its arguments
    prevVertices,  \* this.vertices as it was when that operation was called
    prevFaces,     \* this.faces as it was when that operation was called
    nOps,          \* number of operations applied so far
    \* -- one call of the serializer / validator on a given mesh --
    stlVertices,   \* the vertices argument
    stlFaces,      \* the faces argument
    stlFilename,   \* the filename argument, a sequence of characters
    stlCall,       \* which function was called ("none" before the call)
    stlResult,     \* what the call returned, or the error it raised
    stlWarnings,   \* the console.warn calls made by the call
    \* -- the application object (OSMToSTL) and its asynchronous calls --
    heap,          \* the vertex/face array pairs allocated so far; an array
                   \* pair is named by its position in this sequence
    thisArena,     \* the pair this.vertices / this.faces refer to
    progressLog,   \* the values passed to updateProgress, in order
    generated,     \* generatedSTLContent, generatedSTLFilename, generatedLayers
    layerCall,     \* the frame of one processLayer call: locals and position
    pureCall,      \* one call of a function of the program: name, arguments
                   \* and, once it returned, result
    \* -- the page and the generate() calls started on it --
    form,          \* the values of the inputs and checkboxes of the page
    generateBtn,   \* the generate button: [disabled]
    autoGenerateTimeout,  \* the debounce timer: "null", "pending" or "fired"
    runs,          \* the frames of the generate() calls, in order of start
    \* -- the timers of the page, time counted in tenths of a second --
    timers,        \* time left on each pending setTimeout of the listeners
    burst          \* the input events so far and the time since the last one

arenaVars == <<vertices, faces, last, prevVertices, prevFaces, nOps>>

stlVars == <<stlVertices, stlFaces, stlFilename, stlCall, stlResult, stlWarnings>>

appVars == <<heap, thisArena, progressLog, generated>>

layerVars == <<layerCall, pureCall>>

pageVars == <<form, generateBtn, autoGenerateTimeout, runs>>

timerVars == <<timers, burst>>

vars == <<arenaVars, stlVars, appVars, layerVars, pageVars, timerVars>>

----------------------------------------------------------------------------
(* Bounds of the model *)

MaxOps == 3
MaxArenaVertices == 16
MaxMeshVertices == 3
MaxMeshFaces == 2
MaxChunks == 3
MaxRuns == 2
MaxLinePoints == 4
MaxChanges == 3
MaxQuiet == 20

(* Program constants *)

MaxPrismPoints == 500
MaxTriangulatedPoints == 1000

----------------------------------------------------------------------------
(* Pure helpers *)

Mesh(vs, fs) == [vertices |-> vs, faces |-> fs]

\* F applied to the value of v, the value being computed once
At(v, F(_)) == CHOOSE r \in {F(x) : x \in {v}} : TRUE

\* the "remove duplicate last point if present" expression shared by the
\* three ring consumers
cleanCoords(coords) ==
    IF Len(coords) > 0
       /\ coords[1][1] = coords[Len(coords)][1]
       /\ coords[1][2] = coords[Len(coords)][2]
    THEN SubSeq(coords, 1, Len(coords) - 1)
    ELSE coords

\* createSolidBase with the top corners left on the ground
createSolidBase_FlatTop(baseSize, baseThickness) ==
    Mesh(<< <<0, 0, 0>>,
            <<baseSize, 0, 0>>,
            <<baseSize, baseSize, 0>>,
            <<0, baseSize, 0>>,
            <<0, 0, 0>>,
            <<baseSize, 0, 0>>,
            <<baseSize, baseSize, 0>>,
            <<0, baseSize, 0>> >>,
         << <<0, 1, 5>>, <<0, 5, 4>>,
            <<1, 2, 6>>, <<1, 6, 5>>,
            <<2, 3, 7>>, <<2, 7, 6>>,
            <<3, 0, 4>>, <<3, 4, 7>>,
            <<4, 5, 6>>, <<4, 6, 7>>,
            <<0, 1, 2>>, <<0, 2, 3>> >>)

createSolidBase(baseSize, baseThickness) ==
    Mesh(<< <<0, 0, 0>>,
            <<baseSize, 0, 0>>,
            <<baseSize, baseSize, 0>>,
            <<0, baseSize, 0>>,
            <<0, 0, baseThickness>>,
            <<baseSize, 0, baseThickness>>,
            <<baseSize, baseSize, baseThickness>>,
            <<0, baseSize, baseThickness>> >>,
         << <<0, 1, 5>>, <<0, 5, 4>>,
            <<1, 2, 6>>, <<1, 6, 5>>,
            <<2, 3, 7>>, <<2, 7, 6>>,
            <<3, 0, 4>>, <<3, 4, 7>>,
            <<4, 5, 6>>, <<4, 6, 7>>,
            <<0, 1, 2>>, <<0, 2, 3>> >>)

\* addPrismFromPolygon, "Add vertical pairs": (x, y, z0) then (x, y, z1) per point
prismVertexPairs(clean, z0, z1) ==
    [k \in 1..(2 * Len(clean)) |->
        LET i == (k - 1) \div 2
        IN  <<clean[i + 1][1], clean[i + 1][2],
              IF (k - 1) % 2 = 0 THEN z0 ELSE z1>>]

prismSideFaces_NoWrap(baseIndex, n) ==
    [k \in 1..(2 * n) |->
        LET i     == (k - 1) \div 2
            iNext == i + 1
            b1    == baseIndex + 2 * i
            t1    == baseIndex + 2 * i + 1
            b2    == baseIndex + 2 * iNext
            t2    == baseIndex + 2 * iNext + 1
        IN  IF (k - 1) % 2 = 0 THEN <<b1, b2, t1>> ELSE <<t1, b2, t2>>]

\* addPrismFromPolygon, "Side faces"
prismSideFaces(baseIndex, n) ==
    [k \in 1..(2 * n) |->
        LET i     == (k - 1) \div 2
            iNext == (i + 1) % n
            b1    == baseIndex + 2 * i
            t1    == baseIndex + 2 * i + 1
            b2    == baseIndex + 2 * iNext
            t2    == baseIndex + 2 * iNext + 1
        IN  IF (k - 1) % 2 = 0 THEN <<b1, b2, t1>> ELSE <<t1, b2, t2>>]

\* addPrismFromPolygon, "Top and bottom faces": the loop i = 1 .. n-2 pushes a
\* bottom face then a top face
prismCapFaces(baseIndex, n) ==
    LET topStart    == baseIndex + 1
        bottomStart == baseIndex
        count       == IF n > 2 THEN 2 * (n - 2) ELSE 0
    IN  [k \in 1..count |->
            LET i == ((k - 1) \div 2) + 1
            IN  IF (k - 1) % 2 = 0
                THEN <<bottomStart, bottomStart + 2 * (i + 1), bottomStart + 2 * i>>
                ELSE <<topStart, topStart + 2 * i, topStart + 2 * (i + 1)>>]

addPrismFromPolygon_RawLimit(vs, fs, coords, z0, z1) ==
    IF Len(coords) < 3 \/ Len(coords) > MaxPrismPoints THEN Mesh(vs, fs)
    ELSE
        LET clean == cleanCoords(coords)
            n     == Len(clean)
            baseIndex == Len(vs)
        IN  Mesh(vs \o prismVertexPairs(clean, z0, z1),
                 fs \o prismSideFaces(baseIndex, n)
                    \o prismCapFaces(baseIndex, n))

addPrismFromPolygon_LimitOffByOne(vs, fs, coords, z0, z1) ==
    IF Len(coords) < 3 THEN Mesh(vs, fs)
    ELSE
        LET clean == cleanCoords(coords)
            n     == Len(clean)
        IN  IF n > MaxPrismPoints + 1 THEN Mesh(vs, fs)
            ELSE
                LET baseIndex == Len(vs)
                IN  Mesh(vs \o prismVertexPairs(clean, z0, z1),
                         fs \o prismSideFaces(baseIndex, n)
                            \o prismCapFaces(baseIndex, n))

addPrismFromPolygon(vs, fs, coords, z0, z1) ==
    IF Len(coords) < 3 THEN Mesh(vs, fs)
    ELSE
        LET clean == cleanCoords(coords)
            n     == Len(clean)
        IN  IF n > MaxPrismPoints THEN Mesh(vs, fs)
            ELSE
                LET baseIndex == Len(vs)
                IN  Mesh(vs \o prismVertexPairs(clean, z0, z1),
                         fs \o prismSideFaces(baseIndex, n)
                            \o prismCapFaces(baseIndex, n))

\* the fan loop of triangulatePolygon: (0, i, i+1) for i = 1 .. n-2
fanTriangles(n) ==
    [i \in 1..(IF n > 2 THEN n - 2 ELSE 0) |-> <<0, i, i + 1>>]

triangulatePolygon(coords) ==
    IF Len(coords) < 3 \/ Len(coords) > MaxTriangulatedPoints THEN <<>>
    ELSE
        LET clean == cleanCoords(coords)
        IN  IF Len(clean) < 3 \/ Len(clean) > MaxTriangulatedPoints THEN <<>>
            ELSE fanTriangles(Len(clean))

\* addPrismFromPolygonTriangulated, "Add faces for triangulated top and bottom"
triangulatedCapFaces(triangles, bottomStart, topStart) ==
    [k \in 1..(2 * Len(triangles)) |->
        LET tri == triangles[((k - 1) \div 2) + 1]
        IN  IF (k - 1) % 2 = 0
            THEN <<bottomStart + tri[1], bottomStart + tri[3], bottomStart + tri[2]>>
            ELSE <<topStart + tri[1], topStart + tri[2], topStart + tri[3]>>]

\* addPrismFromPolygonTriangulated, "Outer vertical wall"
triangulatedWallFaces(bottomStart, topStart, n) ==
    [k \in 1..(2 * n) |->
        LET i  == (k - 1) \div 2
            j  == (i + 1) % n
            b1 == bottomStart + i
            t1 == topStart + i
            b2 == bottomStart + j
            t2 == topStart + j
        IN  IF (k - 1) % 2 = 0 THEN <<b1, b2, t1>> ELSE <<t1, b2, t2>>]

\* addPrismFromPolygonTriangulated putting the new vertices before the stored ones
addPrismFromPolygonTriangulated_Unshift(vs, fs, coords, z0, z1) ==
    LET clean == cleanCoords(coords)
        n     == Len(clean)
    IN  IF Len(coords) < 3 \/ Len(coords) > MaxTriangulatedPoints
           \/ n < 3 \/ n > MaxTriangulatedPoints
        THEN Mesh(vs, fs)
        ELSE Mesh([i \in 1..n |-> <<clean[i][1], clean[i][2], z0>>]
                      \o [i \in 1..n |-> <<clean[i][1], clean[i][2], z1>>] \o vs,
                  fs \o triangulatedCapFaces(triangulatePolygon(clean), 0, n)
                     \o triangulatedWallFaces(0, n, n))

addPrismFromPolygonTriangulated(vs, fs, coords, z0, z1) ==
    IF Len(coords) < 3 \/ Len(coords) > MaxTriangulatedPoints THEN Mesh(vs, fs)
    ELSE
        LET clean == cleanCoords(coords)
        IN  IF Len(clean) < 3 \/ Len(clean) > MaxTriangulatedPoints THEN Mesh(vs, fs)
            ELSE
                LET n         == Len(clean)
                    triangles == triangulatePolygon(clean)
                IN  IF Len(triangles) = 0 THEN Mesh(vs, fs)
                    ELSE
                        LET bottomStart == Len(vs)
                            bottom      == [i \in 1..n |-> <<clean[i][1], clean[i][2], z0>>]
                            topStart    == Len(vs) + n
                            top         == [i \in 1..n |-> <<clean[i][1], clean[i][2], z1>>]
                        IN  Mesh(vs \o bottom \o top,
                                 fs \o triangulatedCapFaces(triangles, bottomStart, topStart)
                                    \o triangulatedWallFaces(bottomStart, topStart, n))

\* reset that empties the vertex list only
reset_KeepsFaces == Mesh(<<>>, faces)

reset == Mesh(<<>>, <<>>)

getMesh == Mesh(vertices, faces)

faceErrors_OffByOne(vs, face, idx) ==
    IF Len(face) # 3
    THEN << <<"face size", idx, Len(face)>> >>
    ELSE LET bad(p) == face[p] < 0 \/ face[p] > Len(vs)
             e(p)   == IF bad(p) THEN << <<"invalid index", idx, face[p]>> >> ELSE <<>>
         IN  e(1) \o e(2) \o e(3)

\* STLGenerator.validateMesh: the list of errors, one entry per errors.push
faceErrors(vs, face, idx) ==
    IF Len(face) # 3
    THEN << <<"face size", idx, Len(face)>> >>
    ELSE LET bad(p) == face[p] < 0 \/ face[p] >= Len(vs)
             e(p)   == IF bad(p) THEN << <<"invalid index", idx, face[p]>> >> ELSE <<>>
         IN  e(1) \o e(2) \o e(3)

\* faces.forEach((face, idx) => ...) over faces lo..hi (the list is split in
\* halves so that long face lists do not nest deeply)
RECURSIVE allFaceErrors(_, _, _, _)
allFaceErrors(vs, fs, lo, hi) ==
    IF lo > hi THEN <<>>
    ELSE IF lo = hi THEN faceErrors(vs, fs[lo], lo - 1)
    ELSE LET mid == (lo + hi) \div 2
         IN  allFaceErrors(vs, fs, lo, mid) \o allFaceErrors(vs, fs, mid + 1, hi)

validateMesh(vs, fs) ==
    LET errors == (IF Len(vs) = 0 THEN << <<"No vertices in mesh">> >> ELSE <<>>)
                  \o (IF Len(fs) = 0 THEN << <<"No faces in mesh">> >> ELSE <<>>)
                  \o allFaceErrors(vs, fs, 1, Len(fs))
    IN  [valid |-> Len(errors) = 0, errors |-> errors]

----------------------------------------------------------------------------
(* STLGenerator.generateSTL.  Coordinates handed to the serializer are     *)
(* integers counting units of 1e-7 mm, so that toFixed(6) rounds.  The     *)
(* text is a sequence of lines, a line a tuple of its words.               *)

Abs(n) == IF n < 0 THEN -n ELSE n

\* filename.replace('.stl', ''): the first occurrence of ".stl" is removed
DotStl == <<".", "s", "t", "l">>

FirstDotStl(filename) ==
    LET starts == {i \in 1..(Len(filename) - 3) : SubSeq(filename, i, i + 3) = DotStl}
    IN  IF starts = {} THEN 0 ELSE CHOOSE i \in starts : \A j \in starts : i <= j

solidName(filename) ==
    LET i == FirstDotStl(filename)
    IN  IF i = 0 THEN filename
        ELSE SubSeq(filename, 1, i - 1) \o SubSeq(filename, i + 4, Len(filename))

\* n.toFixed(6) of a value of n units: sign, then the magnitude rounded to
\* whole 1e-6 (a tie goes to the larger magnitude)
formatNum(n) == [negative |-> n < 0, millionths |-> (Abs(n) + 5) \div 10]

\* e1 x e2 with e1 = v1 - v0 and e2 = v2 - v0
crossProduct(v0, v1, v2) ==
    LET e1 == <<v1[1] - v0[1], v1[2] - v0[2], v1[3] - v0[3]>>
        e2 == <<v2[1] - v0[1], v2[2] - v0[2], v2[3] - v0[3]>>
    IN  <<e1[2] * e2[3] - e1[3] * e2[2],
          e1[3] * e2[1] - e1[1] * e2[3],
          e1[1] * e2[2] - e1[2] * e2[1]>>

\* len > 1e-10 for a cross product c in units^2 (1e-14 mm^2):
\* |c| > 1e4, decided without forming squares that exceed the integer range
LongEnough(c) ==
    \/ \E p \in 1..3 : Abs(c[p]) > 10000
    \/ c[1] * c[1] + c[2] * c[2] + c[3] * c[3] > 100000000

\* the normal written on the facet line: the cross product divided by its
\* length (kept as the direction it has), or (0, 0, 1) when degenerate
facetNormal(v0, v1, v2) ==
    LET c == crossProduct(v0, v1, v2)
    IN  IF LongEnough(c)
        THEN [unitVectorAlong |-> c]
        ELSE [unitVectorAlong |-> <<0, 0, 1>>]

vertexLine(v) == <<"vertex", formatNum(v[1]), formatNum(v[2]), formatNum(v[3])>>

\* vertices[i] is undefined for an index outside the array
Undefined(vs, i) == i < 0 \/ i >= Len(vs)

facetBlock_SwappedVertices(vs, face) ==
    IF Len(face) # 3 THEN <<>>
    ELSE
        LET v0 == vs[face[1] + 1]
            v1 == vs[face[2] + 1]
            v2 == vs[face[3] + 1]
        IN  << <<"facet normal", facetNormal(v0, v1, v2)>>,
               <<"outer loop">>,
               vertexLine(v0), vertexLine(v2), vertexLine(v1),
               <<"endloop">>,
               <<"endfacet">> >>

\* the body of faces.forEach for one face: nothing for a face that has not
\* 3 indices, else the seven lines of its facet block
facetBlock(vs, face) ==
    IF Len(face) # 3 THEN <<>>
    ELSE
        LET v0 == vs[face[1] + 1]
            v1 == vs[face[2] + 1]
            v2 == vs[face[3] + 1]
        IN  << <<"facet normal", facetNormal(v0, v1, v2)>>,
               <<"outer loop">>,
               vertexLine(v0), vertexLine(v1), vertexLine(v2),
               <<"endloop">>,
               <<"endfacet">> >>

\* reading v0[0], v1[0] or v2[0] of an undefined vertex raises a TypeError
facetThrows(vs, face) ==
    /\ Len(face) = 3
    /\ \E p \in 1..3 : Undefined(vs, face[p])

RECURSIVE facetBlocks(_, _, _, _)
facetBlocks(vs, fs, lo, hi) ==
    IF lo > hi THEN <<>>
    ELSE IF lo = hi THEN facetBlock(vs, fs[lo])
    ELSE LET mid == (lo + hi) \div 2
         IN  facetBlocks(vs, fs, lo, mid) \o facetBlocks(vs, fs, mid + 1, hi)

generateSTL(vs, fs, filename) ==
    IF \E k \in 1..Len(fs) : facetThrows(vs, fs[k])
    THEN [kind |-> "threw", error |-> "TypeError"]
    ELSE [kind |-> "returned",
          value |-> << <<"solid", solidName(filename)>> >>
                    \o facetBlocks(vs, fs, 1, Len(fs))
                    \o << <<"endsolid", solidName(filename)>> >>]

\* OSMToSTL.generateSTL: validate, warn when invalid, serialize anyway
pipelineGenerateSTL(vs, fs, filename) ==
    LET validation == validateMesh(vs, fs)
    IN  [warnings |-> IF ~validation.valid
                      THEN << <<"Mesh validation failed:", validation.errors>> >>
                      ELSE <<>>,
         result   |-> generateSTL(vs, fs, filename)]

----------------------------------------------------------------------------
(* The layer pipeline of OSMToSTL.  Lengths of the pipeline are integers   *)
(* counting units of 0.01 mm, longitudes and latitudes integers in an      *)
(* arbitrary unit; the inputs are chosen so that every division of the     *)
(* code is exact.  A feature is                                            *)
(*   [type, coordinates, tags]   with, for a Polygon, coordinates = the    *)
(*   sequence of its rings and, for a LineString, the sequence of points.  *)
(* A point is <<lon, lat>>; the JavaScript value null in the place of a    *)
(* point is NullPoint.  A building height (a tag, defaultHeight, the raw    *)
(* height) is an integer counting hundredths of the number it stands for;  *)
(* a tag is undefined, a number, NaN or a string of characters.            *)

CHUNK_SIZE == 50

Null == [kind |-> "null"]

\* the inputs of the bounding box that the model follows
BBoxInputs == {"bbox-north", "bbox-east"}

LayerOrder == <<"buildings", "roads", "greens", "water">>

\* the results of a run as the constructor and the head of generate() set them
GeneratedNothing ==
    [stlContent |-> Null, stlFilename |-> Null,
     layers |-> [l \in {LayerOrder[k] : k \in 1..4} |-> Null]]
MetersPerLevel == 3
DebounceTenths == 15
BBoxDebounceTenths == 5
MaxBuildingRing == 500

NullPoint == <<>>

Undef == [kind |-> "undefined"]
Num(n) == [kind |-> "number", value |-> n]
NaN == [kind |-> "NaN"]
Str(chars) == [kind |-> "string", chars |-> chars]

\* the locals computed at the head of processLayer and scaleCoordinates;
\* bbox = <<north, east, south, west>>
projection(bbox, config) ==
    LET north == bbox[1]
        east  == bbox[2]
        south == bbox[3]
        west  == bbox[4]
        latRange   == north - south
        lonRange   == east - west
        targetSize == config.targetSize
        baseSize   == (targetSize * 12) \div 10
        scaleX     == targetSize \div lonRange
        scaleY     == targetSize \div latRange
    IN  [west |-> west, south |-> south, baseSize |-> baseSize,
         scaleX |-> scaleX, scaleY |-> scaleY,
         centerOffsetX |-> (baseSize - (scaleX * lonRange)) \div 2,
         centerOffsetY |-> (baseSize - (scaleY * latRange)) \div 2]

toModelXY(pr, lon, lat) ==
    <<((lon - pr.west) * pr.scaleX) + pr.centerOffsetX,
      ((lat - pr.south) * pr.scaleY) + pr.centerOffsetY>>

\* coords.map(([lon, lat]) => toModelXY(lon, lat)); destructuring null raises
mapThrows(coords) == \E i \in 1..Len(coords) : coords[i] = NullPoint

mapToModel(pr, coords) ==
    [i \in 1..Len(coords) |-> toModelXY(pr, coords[i][1], coords[i][2])]

\* "if first and last differ, push a copy of the first"
closeRing(modelCoords) ==
    IF modelCoords[1][1] # modelCoords[Len(modelCoords)][1]
       \/ modelCoords[1][2] # modelCoords[Len(modelCoords)][2]
    THEN Append(modelCoords, modelCoords[1])
    ELSE modelCoords

DigitValue ==
    ("0" :> 0) @@ ("1" :> 1) @@ ("2" :> 2) @@ ("3" :> 3) @@ ("4" :> 4)
        @@ ("5" :> 5) @@ ("6" :> 6) @@ ("7" :> 7) @@ ("8" :> 8) @@ ("9" :> 9)

IsDigit(c) == c \in DOMAIN DigitValue

\* where the run of digits that starts at i ends (i - 1 when there is none)
digitRunEnd(chars, i) ==
    CHOOSE j \in (i - 1)..Len(chars) :
        /\ \A k \in i..j : IsDigit(chars[k])
        /\ j = Len(chars) \/ ~IsDigit(chars[j + 1])

RECURSIVE decimalValue(_, _, _)
decimalValue(chars, lo, hi) ==
    IF lo > hi THEN 0
    ELSE decimalValue(chars, lo, hi - 1) * 10 + DigitValue[chars[hi]]

\* height.match(/(\d+\.?\d*)/): the leftmost run of digits, a "." after it
\* if there is one, and the digits after that; [from, to, dot] or no match
heightMatch(chars) ==
    LET starts == {i \in 1..Len(chars) : IsDigit(chars[i])}
    IN  IF starts = {} THEN [matched |-> FALSE]
        ELSE LET from   == CHOOSE i \in starts : \A j \in starts : i <= j
                 intEnd == digitRunEnd(chars, from)
                 dot    == intEnd < Len(chars) /\ chars[intEnd + 1] = "."
             IN  [matched |-> TRUE, from |-> from, intEnd |-> intEnd, dot |-> dot,
                  to |-> IF dot THEN digitRunEnd(chars, intEnd + 2) ELSE intEnd]

\* parseFloat(match[1]), in hundredths, for a match of at most two decimals
parseFloatOf(chars, m) ==
    LET decimals == IF m.dot THEN m.to - (m.intEnd + 1) ELSE 0
        fraction == IF m.dot THEN decimalValue(chars, m.intEnd + 2, m.to) ELSE 0
    IN  decimalValue(chars, m.from, m.intEnd) * 100
            + (IF decimals = 1 THEN fraction * 10 ELSE fraction)

\* getBuildingHeight: for (const attr of heightAttrs) from attrs on
RECURSIVE heightFrom(_, _, _)
heightFrom(tags, attrs, defaultHeight) ==
    IF attrs = <<>> THEN defaultHeight
    ELSE LET attr  == Head(attrs)
             value == tags[attr]
         IN  IF value.kind = "number"
             THEN IF attr = "building:levels"
                  THEN value.value * MetersPerLevel
                  ELSE value.value
             ELSE IF value.kind = "string" /\ heightMatch(value.chars).matched
             THEN parseFloatOf(value.chars, heightMatch(value.chars))
             ELSE heightFrom(tags, Tail(attrs), defaultHeight)

getBuildingHeight(feature, defaultHeight) ==
    heightFrom(feature.tags, <<"height", "building:height", "building:levels">>,
               defaultHeight)

Max(a, b) == IF a >= b THEN a ELSE b

\* the largest of 0 and the heights of features lo .. hi
RECURSIVE maxBuildingHeightFrom(_, _, _, _)
maxBuildingHeightFrom(features, lo, hi, defaultHeight) ==
    IF lo > hi THEN 0
    ELSE IF lo = hi THEN Max(0, getBuildingHeight(features[lo], defaultHeight))
    ELSE LET mid   == (lo + hi) \div 2
             lower == maxBuildingHeightFrom(features, lo, mid, defaultHeight)
             upper == maxBuildingHeightFrom(features, mid + 1, hi, defaultHeight)
         IN  Max(lower, upper)

\* height * heightScale with heightScale = maxHeight / maxBuildingHeight, or 1
scaledHeight(rawHeight, maxBuildingHeight, config) ==
    IF maxBuildingHeight > 0
    THEN (rawHeight * config.maxHeight) \div maxBuildingHeight
    ELSE rawHeight

\* the outcome of processing one feature: the arena after it, or an error
\* raised (the arena then holds what was pushed before the error)
Ok(mesh) == [threw |-> FALSE, mesh |-> mesh]
Threw(mesh) == [threw |-> TRUE, mesh |-> mesh]

\* processLayer / scaleCoordinates, body of the buildings loop
processBuilding(mesh, feature, pr, config, maxBuildingHeight) ==
    IF feature.type # "Polygon" THEN Ok(mesh)
    ELSE IF Len(feature.coordinates) = 0 THEN Threw(mesh)  \* exterior.length of undefined
    ELSE
        LET exterior == feature.coordinates[1]
        IN  IF Len(exterior) > MaxBuildingRing THEN Ok(mesh)
            ELSE IF mapThrows(exterior) THEN Threw(mesh)
            ELSE IF Len(exterior) = 0 THEN Threw(mesh)     \* modelCoords[0][0] of undefined
            ELSE
                LET modelCoords == closeRing(mapToModel(pr, exterior))
                    height == scaledHeight(getBuildingHeight(feature, config.defaultHeight),
                                           maxBuildingHeight, config)
                IN  Ok(addPrismFromPolygon(mesh.vertices, mesh.faces, modelCoords,
                                           config.baseThickness,
                                           config.baseThickness + height))

\* Math.sqrt, exact on the perfect squares the inputs produce
RECURSIVE sqrtFrom(_, _)
sqrtFrom(v, r) ==
    LET better == (r + v \div r) \div 2
    IN  IF better >= r THEN r ELSE sqrtFrom(v, better)

sqrt(v) == IF v = 0 THEN 0 ELSE sqrtFrom(v, v)

\* bufferLineString: the tangent at point i (1-based)
tangent(coords, i) ==
    IF i = 1
    THEN <<coords[2][1] - coords[1][1], coords[2][2] - coords[1][2]>>
    ELSE IF i = Len(coords)
    THEN <<coords[i][1] - coords[i - 1][1], coords[i][2] - coords[i - 1][2]>>
    ELSE <<((coords[i][1] - coords[i - 1][1]) + (coords[i + 1][1] - coords[i][1])) \div 2,
           ((coords[i][2] - coords[i - 1][2]) + (coords[i + 1][2] - coords[i][2])) \div 2>>

\* bufferLineString: the left and right offsets of the points kept, in order
RECURSIVE offsetsFrom(_, _, _)
offsetsFrom(coords, i, halfWidth) ==
    IF i > Len(coords) THEN <<>>
    ELSE
        LET t   == tangent(coords, i)
            len == sqrt(t[1] * t[1] + t[2] * t[2])
        IN  IF len = 0 THEN offsetsFrom(coords, i + 1, halfWidth)
            ELSE
                LET perpX == ((-t[2]) * halfWidth) \div len
                    perpY == (t[1] * halfWidth) \div len
                IN  << [left  |-> <<coords[i][1] + perpX, coords[i][2] + perpY>>,
                        right |-> <<coords[i][1] - perpX, coords[i][2] - perpY>>] >>
                    \o offsetsFrom(coords, i + 1, halfWidth)

\* bufferLineString closing the strip: a quad from the last kept point back
\* to the first
bufferLineString_Closed(coords, width) ==
    IF Len(coords) < 2 THEN <<>>
    ELSE
        LET sides == offsetsFrom(coords, 1, width \div 2)
        IN  [i \in 1..Len(sides) |->
                <<sides[i].left, sides[i].right,
                  sides[(i % Len(sides)) + 1].right, sides[(i % Len(sides)) + 1].left>>]

bufferLineString(coords, width) ==
    IF Len(coords) < 2 THEN <<>>
    ELSE
        LET sides == offsetsFrom(coords, 1, width \div 2)
        IN  [i \in 1..(IF Len(sides) > 0 THEN Len(sides) - 1 ELSE 0) |->
                <<sides[i].left, sides[i].right, sides[i + 1].right, sides[i + 1].left>>]

\* quad.filter(...) giving up the whole quad when a corner is outside
validQuad_AllOrNothing(quad, baseSize, roadWidth) ==
    IF \A k \in 1..Len(quad) :
           /\ quad[k][1] >= 0 - roadWidth /\ quad[k][1] <= baseSize + roadWidth
           /\ quad[k][2] >= 0 - roadWidth /\ quad[k][2] <= baseSize + roadWidth
    THEN quad
    ELSE <<>>

\* quad.filter(...): the corners inside the base rectangle widened by roadWidth
validQuad(quad, baseSize, roadWidth) ==
    SelectSeq(quad, LAMBDA c :
        /\ c[1] >= 0 - roadWidth /\ c[1] <= baseSize + roadWidth
        /\ c[2] >= 0 - roadWidth /\ c[2] <= baseSize + roadWidth)

\* roads: the copy of the first corner is pushed when first and last differ
\* by more than 1e-6 mm on an axis (less than one unit: when they differ)
closeQuad(valid) ==
    IF Abs(valid[1][1] - valid[Len(valid)][1]) > 0
       \/ Abs(valid[1][2] - valid[Len(valid)][2]) > 0
    THEN Append(valid, valid[1])
    ELSE valid

\* the body of buffered.forEach for one quad
extrudeQuad(mesh, quad, baseSize, roadWidth, z0, z1) ==
    IF Len(quad) < 3 THEN mesh
    ELSE
        LET valid == validQuad(quad, baseSize, roadWidth)
        IN  IF Len(valid) >= 3
            THEN addPrismFromPolygonTriangulated(mesh.vertices, mesh.faces,
                                                 closeQuad(valid), z0, z1)
            ELSE mesh

RECURSIVE extrudeQuads(_, _, _, _, _, _, _)
extrudeQuads(mesh, quads, k, baseSize, roadWidth, z0, z1) ==
    IF k > Len(quads) THEN mesh
    ELSE At(extrudeQuad(mesh, quads[k], baseSize, roadWidth, z0, z1),
            LAMBDA next : extrudeQuads(next, quads, k + 1, baseSize, roadWidth, z0, z1))

\* processLayer / scaleCoordinates, body of the roads loop
processRoad(mesh, feature, pr, config) ==
    IF feature.type # "LineString" \/ Len(feature.coordinates) < 2 THEN Ok(mesh)
    ELSE IF mapThrows(feature.coordinates) THEN Threw(mesh)
    ELSE
        LET z0 == config.baseThickness + 2
            z1 == z0 + config.roadHeight
            buffered == bufferLineString(mapToModel(pr, feature.coordinates),
                                         config.roadWidth)
        IN  Ok(extrudeQuads(mesh, buffered, 1, pr.baseSize, config.roadWidth, z0, z1))

\* processLayer / scaleCoordinates, body of the greens and water loops
processFlat(mesh, feature, pr, config) ==
    IF feature.type # "Polygon" THEN Ok(mesh)
    ELSE IF Len(feature.coordinates) = 0 THEN Threw(mesh)  \* exterior.map of undefined
    ELSE
        LET exterior == feature.coordinates[1]
        IN  IF mapThrows(exterior) THEN Threw(mesh)
            ELSE IF Len(exterior) = 0 THEN Threw(mesh)     \* modelCoords[0][0] of undefined
            ELSE
                LET z0 == config.baseThickness + 1
                    z1 == z0 + 50
                IN  Ok(addPrismFromPolygonTriangulated(
                           mesh.vertices, mesh.faces,
                           closeRing(mapToModel(pr, exterior)), z0, z1))

processFeature(layerType, mesh, feature, pr, config, maxBuildingHeight) ==
    IF layerType = "buildings"
    THEN processBuilding(mesh, feature, pr, config, maxBuildingHeight)
    ELSE IF layerType = "roads"
    THEN processRoad(mesh, feature, pr, config)
    ELSE processFlat(mesh, feature, pr, config)

\* for (let i = start; i < end; i++) over features i = lo .. hi (1-based),
\* stopping at the first feature that raises; visited = the features reached.
\* The range is walked in order, first its lower half and then its upper half.
RECURSIVE processRange(_, _, _, _, _, _, _, _)
processRange(layerType, mesh, features, lo, hi, pr, config, maxBuildingHeight) ==
    IF lo > hi THEN [threw |-> FALSE, mesh |-> mesh, visited |-> <<>>]
    ELSE IF lo = hi
    THEN At(processFeature(layerType, mesh, features[lo], pr, config,
                           maxBuildingHeight),
            LAMBDA one : [threw |-> one.threw, mesh |-> one.mesh, visited |-> <<lo>>])
    ELSE At(processRange(layerType, mesh, features, lo, (lo + hi) \div 2, pr, config,
                         maxBuildingHeight),
            LAMBDA lower :
                IF lower.threw THEN lower
                ELSE At(processRange(layerType, lower.mesh, features,
                                     (lo + hi) \div 2 + 1, hi, pr, config,
                                     maxBuildingHeight),
                        LAMBDA upper :
                            [threw |-> upper.threw, mesh |-> upper.mesh,
                             visited |-> lower.visited \o upper.visited]))

----------------------------------------------------------------------------
(* Inputs *)

PA == <<0, 0>>
PB == <<10, 0>>
PC == <<10, 10>>
PD == <<0, 10>>
PE == <<5, 15>>

\* Array.from({ length: len }, (_, i) => [i, i]) of testComplexPolygon
lineRing(len) == [i \in 1..len |-> <<i - 1, i - 1>>]

closedRing(len) == Append(lineRing(len), <<0, 0>>)

RingAB        == <<PA, PB>>                     \* fewer than 3 points
RingABA       == <<PA, PB, PA>>                 \* closed, 2 points after cleanup
ClosedSquare  == <<PA, PB, PC, PD, PA>>         \* testBasicPolygon
OpenPentagon  == <<PA, PB, PC, PE, PD>>
ClosedTwice   == <<PA, PB, PC, PD, PA, PA>>     \* closing point given twice

PrismRings ==
    { RingAB, RingABA, ClosedSquare, OpenPentagon, ClosedTwice,
      lineRing(MaxPrismPoints), closedRing(MaxPrismPoints),
      lineRing(MaxPrismPoints + 1), closedRing(MaxPrismPoints + 1) }

TriangulatedRings ==
    { RingABA, ClosedSquare, OpenPentagon,
      lineRing(MaxTriangulatedPoints), closedRing(MaxTriangulatedPoints),
      lineRing(MaxTriangulatedPoints + 1) }

TriangulatorRings ==
    { RingABA, Append(OpenPentagon, PA),
      lineRing(MaxTriangulatedPoints), closedRing(MaxTriangulatedPoints),
      lineRing(MaxTriangulatedPoints + 1) }

Z0s == {2}
ZHeights == {5}
BaseSizes == {12}
BaseThicknesses == {2}

\* arguments of createSolidBase called by itself (testBaseGeneration: 100, 2)
AnySizes == {0, 12, 100}
AnyThicknesses == {0, 2}

----------------------------------------------------------------------------
(* The mesh arena as a state machine *)

NoOp == [op |-> "new"]

\* new GeometryProcessor()
ArenaInit ==
    /\ vertices = <<>>
    /\ faces = <<>>
    /\ last = NoOp
    /\ prevVertices = <<>>
    /\ prevFaces = <<>>
    /\ nOps = 0

\* no serializer call is being looked at
StlIdle ==
    /\ stlVertices = <<>>
    /\ stlFaces = <<>>
    /\ stlFilename = <<>>
    /\ stlCall = "none"
    /\ stlResult = [kind |-> "none"]
    /\ stlWarnings = <<>>

\* new OSMToSTL(), and no processLayer call being looked at
AppInit ==
    /\ heap = <<Mesh(<<>>, <<>>)>>
    /\ thisArena = 1
    /\ progressLog = <<>>
    /\ generated = GeneratedNothing

LayerIdle ==
    /\ layerCall = [pc |-> "none"]
    /\ pureCall = [op |-> "none"]

\* a setTimeout handle: cleared or never set, or pending with time left
NoTimer == [pending |-> FALSE]
Timer(left) == [pending |-> TRUE, left |-> left]
Due(timer) == timer.pending /\ timer.left = 0

\* no timer pending, no input event yet
TimersIdle ==
    /\ timers = [autoGenerate |-> NoTimer, bbox |-> [id \in BBoxInputs |-> NoTimer]]
    /\ burst = [changes |-> 0, quiet |-> 0, broken |-> FALSE, bbox |-> FALSE,
                startedAfter |-> <<>>]

\* a page nobody acts on
PageIdle ==
    /\ form = [autoGenerate |-> FALSE]
    /\ generateBtn = [disabled |-> FALSE]
    /\ autoGenerateTimeout = "null"
    /\ runs = <<>>
    /\ TimersIdle

Init ==
    /\ ArenaInit
    /\ StlIdle
    /\ AppInit
    /\ LayerIdle
    /\ PageIdle

\* every operation: it is applied while the model's bounds allow, and the
\* call and the arena it found are recorded
Called(l) ==
    /\ nOps < MaxOps
    /\ Len(vertices) <= MaxArenaVertices
    /\ nOps' = nOps + 1
    /\ UNCHANGED <<stlVars, appVars, layerVars, pageVars, timerVars>>
    /\ last' = l
    /\ prevVertices' = vertices
    /\ prevFaces' = faces

Install(m) ==
    /\ vertices' = m.vertices
    /\ faces' = m.faces

Reset ==
    /\ Called([op |-> "reset"])
    /\ Install(reset)

\* scaleCoordinates: this.vertices.push(...baseVerts); this.faces.push(...baseFaces)
\* (the base's face indices are pushed as createSolidBase returned them)
AppendBase ==
    \E size \in BaseSizes, thickness \in BaseThicknesses :
        LET base == createSolidBase(size, thickness)
        IN  /\ Called([op |-> "appendBase", size |-> size, thickness |-> thickness])
            /\ Install(Mesh(vertices \o base.vertices, faces \o base.faces))

AddPrismFromPolygon ==
    \E coords \in PrismRings, z0 \in Z0s, h \in ZHeights :
        /\ Called([op |-> "addPrismFromPolygon", coords |-> coords,
                   z0 |-> z0, z1 |-> z0 + h])
        /\ Install(addPrismFromPolygon(vertices, faces, coords, z0, z0 + h))

AddPrismFromPolygonTriangulated ==
    \E coords \in TriangulatedRings, z0 \in Z0s, h \in ZHeights :
        /\ Called([op |-> "addPrismFromPolygonTriangulated", coords |-> coords,
                   z0 |-> z0, z1 |-> z0 + h])
        /\ Install(addPrismFromPolygonTriangulated(vertices, faces, coords, z0, z0 + h))

\* const base = processor.createSolidBase(size, thickness)
CreateSolidBase ==
    \E size \in AnySizes, thickness \in AnyThicknesses :
        /\ Called([op |-> "createSolidBase", size |-> size, thickness |-> thickness,
                   base |-> createSolidBase(size, thickness)])
        /\ UNCHANGED <<vertices, faces>>

TriangulatePolygon ==
    \E coords \in TriangulatorRings :
        /\ Called([op |-> "triangulatePolygon", coords |-> coords,
                   triangles |-> triangulatePolygon(coords)])
        /\ UNCHANGED <<vertices, faces>>

Next ==
    \/ Reset
    \/ AppendBase
    \/ AddPrismFromPolygon
    \/ AddPrismFromPolygonTriangulated
    \/ CreateSolidBase
    \/ TriangulatePolygon

Spec == Init /\ [][Next]_vars

----------------------------------------------------------------------------
(* The serializer and the validator, each applied once to a given mesh *)

TestStl   == <<"t", ".", "s", "t", "l">>
PlainName == <<"t", "o", "p">>
TwoSuffix == <<"a", ".", "s", "t", "l", "b", ".", "s", "t", "l">>

Filenames == {TestStl, PlainName, TwoSuffix}

\* vertex pool of the given meshes (units of 1e-7 mm)
VertexPool ==
    << <<0, 0, 0>>, <<20000, 0, 0>>, <<0, 20000, 4>>, <<0, 15, -20000>>, <<-7, 0, 20000>> >>

VertexLists == {SubSeq(VertexPool, 1, n) : n \in 0..MaxMeshVertices}

FacePool ==
    { <<0, 1, 2>>, <<2, 1, 0>>, <<0, 0, 1>>,   \* 3 indices (the last degenerate)
      <<0, 1>>, <<0, 1, 2, 0>>,                \* not 3 indices
      <<0, 1, 3>>, <<-1, 0, 1>> }              \* an index that may be out of range

RECURSIVE SeqsUpTo(_, _)
SeqsUpTo(S, n) ==
    IF n = 0 THEN {<<>>}
    ELSE LET shorter == SeqsUpTo(S, n - 1)
         IN  shorter \cup {Append(q, x) : q \in {r \in shorter : Len(r) = n - 1}, x \in S}

FaceLists == SeqsUpTo(FacePool, MaxMeshFaces)

\* the cube of testSTLGeneration, scaled to 20000 units
CubeVertices ==
    << <<0, 0, 0>>, <<20000, 0, 0>>, <<20000, 20000, 0>>, <<0, 20000, 0>>,
       <<0, 0, 20000>>, <<20000, 0, 20000>>, <<20000, 20000, 20000>>, <<0, 20000, 20000>> >>

CubeFaces ==
    << <<0, 1, 2>>, <<0, 2, 3>>, <<4, 7, 6>>, <<4, 6, 5>>,
       <<0, 4, 5>>, <<0, 5, 1>>, <<2, 6, 7>>, <<2, 7, 3>>,
       <<0, 3, 7>>, <<0, 7, 4>>, <<1, 5, 6>>, <<1, 6, 2>> >>

GivenMeshes ==
    {Mesh(vs, fs) : vs \in VertexLists, fs \in FaceLists}
        \cup {Mesh(CubeVertices, CubeFaces)}

InitSTL ==
    /\ ArenaInit
    /\ AppInit
    /\ LayerIdle
    /\ PageIdle
    /\ \E m \in GivenMeshes :
          /\ stlVertices = m.vertices
          /\ stlFaces = m.faces
    /\ stlFilename \in Filenames
    /\ stlCall = "none"
    /\ stlResult = [kind |-> "none"]
    /\ stlWarnings = <<>>

\* the arguments are read, never assigned
StlCalled(name) ==
    /\ stlCall = "none"
    /\ stlCall' = name
    /\ UNCHANGED <<stlVertices, stlFaces, stlFilename, arenaVars, appVars,
                   layerVars, pageVars, timerVars>>

ValidateMesh ==
    /\ StlCalled("validateMesh")
    /\ stlResult' = [kind |-> "returned", value |-> validateMesh(stlVertices, stlFaces)]
    /\ UNCHANGED stlWarnings

GenerateSTL ==
    /\ StlCalled("STLGenerator.generateSTL")
    /\ stlResult' = generateSTL(stlVertices, stlFaces, stlFilename)
    /\ UNCHANGED stlWarnings

PipelineGenerateSTL ==
    LET r == pipelineGenerateSTL(stlVertices, stlFaces, stlFilename)
    IN  /\ StlCalled("OSMToSTL.generateSTL")
        /\ stlResult' = r.result
        /\ stlWarnings' = r.warnings

NextSTL ==
    \/ ValidateMesh
    \/ GenerateSTL
    \/ PipelineGenerateSTL

SpecSTL == InitSTL /\ [][NextSTL]_vars

----------------------------------------------------------------------------
(* One call of OSMToSTL.processLayer.  JavaScript runs a call from one     *)
(* await to the next without interruption, so a step of the model is the   *)
(* code from the entry (or from an await) up to the next await, the return *)
(* or the error that leaves the function.                                  *)

Alloc(h) == Append(h, Mesh(<<>>, <<>>))

ceilDiv(a, b) == (a + b - 1) \div b

\* progressStart + ((chunk + 1) / totalChunks) * progressRange, as a fraction
progressValue(f, chunk) ==
    [num |-> f.progressStart * f.totalChunks + (chunk + 1) * f.progressRange,
     den |-> f.totalChunks]

\* the chunk loop of processLayer from the head of iteration `chunk` up to
\* the next await, the return or the error; w = [heap, thisArena, progressLog]
runChunk(w, f, chunk) ==
    LET start == chunk * CHUNK_SIZE
        end   == IF start + CHUNK_SIZE < Len(f.features)
                 THEN start + CHUNK_SIZE ELSE Len(f.features)
    IN  At(processRange(f.layerType, w.heap[w.thisArena], f.features,
                        start + 1, end, f.projection, f.config, f.maxBuildingHeight),
           LAMBDA done :
             LET h1 == [w.heap EXCEPT ![w.thisArena] = done.mesh]
                 f1 == [f EXCEPT !.chunk = chunk, !.visited = @ \o done.visited]
             IN  IF done.threw
                 THEN [w |-> [w EXCEPT !.heap = h1],
                       f |-> [f1 EXCEPT !.pc = "threw"]]
                 ELSE IF chunk < f.totalChunks - 1
                 THEN IF f.layerType = "buildings"
                      THEN [w |-> [w EXCEPT !.heap = h1],
                            f |-> [f1 EXCEPT !.pc = "await yield"]]
                      ELSE [w |-> [w EXCEPT !.heap = h1,
                                            !.progressLog =
                                                Append(@, progressValue(f, chunk))],
                            f |-> [f1 EXCEPT !.pc = "await next chunk"]]
                 ELSE \* "Restore state": the mesh returned is the temp pair
                      [w |-> [w EXCEPT !.heap = h1, !.thisArena = f.oldArena],
                       f |-> [f1 EXCEPT !.pc = "returned", !.returned = f.tempArena]])

\* processLayer from its entry: w is the application state found, args the
\* arguments [features, bbox, config, layerType, progressStart, progressRange]
enterProcessLayer(w, args) ==
    LET h1     == Alloc(Alloc(w.heap))
        local  == Len(w.heap) + 1      \* let vertices = [], faces = []
        temp   == Len(w.heap) + 2      \* tempVertices, tempFaces
        f == [pc |-> "entered",
              layerType |-> args.layerType,
              features |-> args.features,
              config |-> args.config,
              projection |-> projection(args.bbox, args.config),
              progressStart |-> args.progressStart,
              progressRange |-> args.progressRange,
              oldArena |-> w.thisArena,
              tempArena |-> temp,
              totalChunks |-> ceilDiv(Len(args.features), CHUNK_SIZE),
              maxBuildingHeight |->
                  IF args.layerType = "buildings"
                  THEN maxBuildingHeightFrom(args.features, 1, Len(args.features),
                                             args.config.defaultHeight)
                  ELSE 0,
              chunk |-> 0,
              visited |-> <<>>,
              returned |-> 0]
    IN  IF Len(args.features) = 0
        THEN [w |-> [w EXCEPT !.heap = h1],
              f |-> [f EXCEPT !.pc = "returned", !.returned = local]]
        ELSE At(f, LAMBDA frame :
                    runChunk([w EXCEPT !.heap = h1, !.thisArena = temp], frame, 0))

\* processLayer resumed after an await
resumeProcessLayer(w, f) ==
    IF f.pc = "await yield"
    THEN \* buildings: updateProgress, then the second await of the iteration
         [w |-> [w EXCEPT !.progressLog = Append(@, progressValue(f, f.chunk))],
          f |-> [f EXCEPT !.pc = "await next chunk"]]
    ELSE runChunk(w, f, f.chunk + 1)

World ==
    [heap |-> heap, thisArena |-> thisArena, progressLog |-> progressLog,
     generated |-> generated]

SetWorld(w) ==
    /\ heap' = w.heap
    /\ thisArena' = w.thisArena
    /\ progressLog' = w.progressLog
    /\ generated' = w.generated

(* Inputs of the call *)

ModelConfig ==
    [targetSize |-> 2000, maxHeight |-> 2000, defaultHeight |-> 4000,
     baseThickness |-> 200, includeRoads |-> TRUE, includeGreens |-> TRUE,
     includeWater |-> TRUE, roadWidth |-> 200, roadHeight |-> 50]

ModelBBox == <<10, 20, 0, 0>>

Tags(height, buildingHeight, levels) ==
    ("height" :> height) @@ ("building:height" :> buildingHeight)
        @@ ("building:levels" :> levels)

NoTags == Tags(Undef, Undef, Undef)

SquareAt(lon, lat) ==
    << <<lon, lat>>, <<lon + 2, lat>>, <<lon + 2, lat + 2>>, <<lon, lat + 2>>, <<lon, lat>> >>

OpenTriangleAt(lon, lat) ==
    << <<lon, lat>>, <<lon + 2, lat>>, <<lon, lat + 2>> >>

PolygonFeature(ring, tags) ==
    [type |-> "Polygon", coordinates |-> <<ring>>, tags |-> tags]

LineFeature(points) ==
    [type |-> "LineString", coordinates |-> points, tags |-> NoTags]

\* the i-th feature of a well-formed list: polygons for the polygon layers
\* and lines for the roads, with every third feature of the other type
goodFeature(layerType, i) ==
    LET lon == i % 16
        lat == i % 7
        polygon == IF i % 2 = 0
                   THEN PolygonFeature(SquareAt(lon, lat), Tags(Num(4000), Undef, Undef))
                   ELSE PolygonFeature(OpenTriangleAt(lon, lat), Tags(Undef, Undef, Num(500)))
        line == IF i % 2 = 0
                THEN LineFeature(<< <<lon, lat>>, <<lon + 2, lat>>, <<lon + 4, lat>> >>)
                ELSE LineFeature(<< <<lon, lat>>, <<lon, lat>>, <<lon, lat + 3>> >>)
    IN  IF layerType = "roads"
        THEN IF i % 3 = 0 THEN polygon ELSE line
        ELSE IF i % 3 = 0 THEN line ELSE polygon

\* a feature that passes the type guard of its layer and then raises: a
\* polygon whose exterior ring is empty, a line holding a null point
malformedFeature(layerType) ==
    IF layerType = "roads"
    THEN LineFeature(<< <<1, 1>>, NullPoint >>)
    ELSE PolygonFeature(<<>>, NoTags)

featureList(layerType, n, badAt) ==
    [i \in 1..n |-> IF i = badAt THEN malformedFeature(layerType)
                    ELSE goodFeature(layerType, i)]

LayerTypes == {"buildings", "roads", "greens", "water"}

FeatureCounts ==
    {0, 1} \cup {k * CHUNK_SIZE : k \in 1..(MaxChunks - 1)}
           \cup {k * CHUNK_SIZE + 1 : k \in 1..(MaxChunks - 1)}

\* where the malformed feature stands (0: nowhere)
BadPositions(n) == {b \in {0, 1, CHUNK_SIZE - 1, CHUNK_SIZE + 1, n} : b <= n}

\* the progress sub-intervals generate() passes, per layer
progressStartOf(layerType) ==
    CASE layerType = "buildings" -> 20
      [] layerType = "roads" -> 40
      [] layerType = "greens" -> 60
      [] layerType = "water" -> 70

progressRangeOf(layerType) ==
    IF layerType \in {"buildings", "roads"} THEN 20 ELSE 10

\* this.vertices / this.faces as a caller may have left them
FoundArenas == {Mesh(<<>>, <<>>), createSolidBase(2400, 200)}

\* lists of buildings told apart by their heights, each with the
\* configuration it is processed under
Building(lon, lat, height) ==
    PolygonFeature(SquareAt(lon, lat), Tags(height, Undef, Undef))

HeightInputs ==
    { <<<<Building(1, 1, Num(1000)), Building(4, 1, Str(<<"2", "0">>)),
          Building(7, 1, Num(4000))>>, ModelConfig>>,
      <<<<Building(1, 1, Num(1000)),
          [LineFeature(<< <<1, 5>>, <<3, 5>> >>) EXCEPT !.tags = Tags(Num(4000), Undef, Undef)]>>,
        ModelConfig>>,
      <<<<Building(1, 1, Num(1000)),
          PolygonFeature(lineRing(MaxBuildingRing + 1), Tags(Num(4000), Undef, Undef))>>,
        ModelConfig>>,
      <<<<Building(1, 1, Str(<<"0">>)), Building(4, 1, Num(0))>>, ModelConfig>>,
      <<<<Building(1, 1, Undef), Building(4, 1, Undef)>>,
        [ModelConfig EXCEPT !.defaultHeight = -500]>>,
      <<<<Building(1, 1, Undef), Building(4, 1, Num(1000))>>, ModelConfig>> }

\* roads that cross the edge of the base rectangle widened by roadWidth
\* (a way of the Overpass answer is not clipped to the bounding box): along
\* (3, 2) degrees the model direction is (300, 400), of length 500
RoadInward  == LineFeature(<< <<27, 7>>, <<24, 5>>, <<21, 3>>, <<18, 1>> >>)
RoadOutward == LineFeature(<< <<18, 1>>, <<21, 3>>, <<24, 5>>, <<27, 7>> >>)
RoadNorth   == LineFeature(<< <<7, 10>>, <<10, 12>> >>)
RoadWest    == LineFeature(<< <<-1, 1>>, <<-4, 3>> >>)
RoadFarAway == LineFeature(<< <<27, 7>>, <<30, 9>> >>)
RoadInside  == LineFeature(<< <<3, 1>>, <<6, 3>>, <<9, 5>> >>)

RoadInputs ==
    { <<<<RoadInward>>, ModelConfig>>,
      <<<<RoadOutward, RoadNorth, RoadWest>>, ModelConfig>>,
      <<<<RoadFarAway, RoadInside>>, ModelConfig>> }

\* the feature lists and configurations of the calls looked at
LayerInputs(layerType) ==
    UNION { { <<featureList(layerType, n, badAt), ModelConfig>> :
                badAt \in BadPositions(n) } : n \in FeatureCounts }
    \cup (IF layerType = "buildings" THEN HeightInputs ELSE {})
    \cup (IF layerType = "roads" THEN RoadInputs ELSE {})

InitLayer ==
    /\ ArenaInit
    /\ StlIdle
    /\ heap \in {<<m>> : m \in FoundArenas}
    /\ thisArena = 1
    /\ progressLog = <<>>
    /\ generated = GeneratedNothing
    /\ PageIdle
    /\ pureCall = [op |-> "none"]
    /\ \E layerType \in LayerTypes :
          \E input \in LayerInputs(layerType) :
            layerCall = [pc |-> "called",
                         args |-> [features |-> input[1],
                                   bbox |-> ModelBBox,
                                   config |-> input[2],
                                   layerType |-> layerType,
                                   progressStart |-> progressStartOf(layerType),
                                   progressRange |-> progressRangeOf(layerType)]]

ProcessLayerEnter ==
    /\ layerCall.pc = "called"
    /\ \E r \in {enterProcessLayer(World, layerCall.args)} :
           /\ SetWorld(r.w)
           /\ layerCall' = r.f
           /\ UNCHANGED pureCall
    /\ UNCHANGED <<arenaVars, stlVars, pageVars, timerVars>>

\* the host runs the continuation of an await (setTimeout(resolve, 0))
ProcessLayerResume ==
    /\ layerCall.pc \in {"await yield", "await next chunk"}
    /\ \E r \in {resumeProcessLayer(World, layerCall)} :
           /\ SetWorld(r.w)
           /\ layerCall' = r.f
           /\ UNCHANGED pureCall
    /\ UNCHANGED <<arenaVars, stlVars, pageVars, timerVars>>

NextLayer ==
    \/ ProcessLayerEnter
    \/ ProcessLayerResume

SpecLayer == InitLayer /\ [][NextLayer]_vars

\* weak fairness of the step the call takes at the given positions: the
\* step is enabled exactly at those positions, and it changes layerCall
HostRuns(positions) ==
    \/ []<>(layerCall.pc \notin positions)
    \/ []<><<layerCall.pc \in positions /\ layerCall' # layerCall>>_vars

\* the host runs the task that is ready: the call is entered, and the
\* callback of every setTimeout(resolve, 0) is run
SpecLayerFair ==
    /\ InitLayer
    /\ [][NextLayer]_vars
    /\ HostRuns({"called"})
    /\ HostRuns({"await yield", "await next chunk"})

----------------------------------------------------------------------------
(* OSMToSTL.generate and the handlers that start it.  A call of generate   *)
(* runs from one macrotask await (the Overpass request, a setTimeout(0)    *)
(* yield) to the next without interruption; an await of a call that itself *)
(* did not wait continues in the same task.  The values of the form are    *)
(* numbers.  The text of an STL file is kept as the solid name and the     *)
(* mesh it serializes.                                                     *)

Whole(n) == [num |-> n, den |-> 1]

BUILDING_CHUNK == 50
ROAD_CHUNK == 50
GREEN_CHUNK == 50
WATER_CHUNK == 50

\* String.prototype.trim for the blanks of the model
RECURSIVE trim(_)
trim(str) ==
    IF str = <<>> THEN str
    ELSE IF Head(str) = " " THEN trim(Tail(str))
    ELSE IF str[Len(str)] = " " THEN trim(SubSeq(str, 1, Len(str) - 1))
    ELSE str

\* str.split(',')[0]
beforeComma(str) ==
    LET commas == {i \in 1..Len(str) : str[i] = ","}
    IN  IF commas = {} THEN str
        ELSE SubSeq(str, 1, (CHOOSE i \in commas : \A j \in commas : i <= j) - 1)

\* the letters of the city names of the model, each with its lower case
LowerCase ==
    ("R" :> "r") @@ ("o" :> "o") @@ ("m" :> "m") @@ ("e" :> "e")
        @@ ("I" :> "i") @@ ("T" :> "t")

\* .replace(/[^a-zA-Z0-9]/g, '_').toLowerCase()
sanitize(str) ==
    [i \in 1..Len(str) |-> IF str[i] \in DOMAIN LowerCase THEN LowerCase[str[i]] ELSE "_"]

\* (sum / 2).toFixed(4) for an integer sum
halfToFixed4(sum) ==
    (IF sum < 0 THEN <<"-">> ELSE <<>>)
        \o <<ToString(Abs(sum) \div 2), ".", IF Abs(sum) % 2 = 1 THEN "5000" ELSE "0000">>

getLocationName(citySearch, bbox) ==
    IF trim(citySearch) # <<>>
    THEN LET cityName == sanitize(beforeComma(trim(citySearch)))
         IN  IF cityName # <<>> THEN cityName
             ELSE <<"l", "o", "c", "a", "t", "i", "o", "n">>
    ELSE <<"lat">> \o halfToFixed4(bbox[1] + bbox[3])
             \o <<"_lon">> \o halfToFixed4(bbox[2] + bbox[4])

\* OSMToSTL.generateSTL applied to a mesh of the pipeline
exportSTL(mesh, filename) ==
    IF \E k \in 1..Len(mesh.faces) : facetThrows(mesh.vertices, mesh.faces[k])
    THEN [kind |-> "threw", error |-> "TypeError"]
    ELSE [kind |-> "returned",
          value |-> [solid |-> solidName(filename), mesh |-> mesh]]

\* validationError with the bounding box compared by < in place of <=
validationError_StrictBBox(bbox, config) ==
    IF bbox[1] < bbox[3] \/ bbox[2] < bbox[4]
    THEN "Invalid bounding box coordinates. North must be > South, East must be > West."
    ELSE IF config.targetSize <= 0 \/ config.maxHeight <= 0 \/ config.baseThickness <= 0
    THEN "Invalid configuration values. All size parameters must be positive."
    ELSE IF config.includeRoads /\ (config.roadWidth <= 0 \/ config.roadHeight <= 0)
    THEN "Invalid road configuration. Road width and height must be positive."
    ELSE "none"

\* the three checks of generate(): the message thrown, or "none"
validationError(bbox, config) ==
    IF bbox[1] <= bbox[3] \/ bbox[2] <= bbox[4]
    THEN "Invalid bounding box coordinates. North must be > South, East must be > West."
    ELSE IF config.targetSize <= 0 \/ config.maxHeight <= 0 \/ config.baseThickness <= 0
    THEN "Invalid configuration values. All size parameters must be positive."
    ELSE IF config.includeRoads /\ (config.roadWidth <= 0 \/ config.roadHeight <= 0)
    THEN "Invalid road configuration. Road width and height must be positive."
    ELSE "none"

included(config, layerType) ==
    CASE layerType = "buildings" -> TRUE
      [] layerType = "roads" -> config.includeRoads
      [] layerType = "greens" -> config.includeGreens
      [] layerType = "water" -> config.includeWater

\* catch and finally of generate(): the call ends with the error
failed(w, run, error) ==
    [w |-> w, run |-> [run EXCEPT !.pc = "done", !.outcome = "error", !.error = error]]

succeeded(w, run) ==
    [w |-> w, run |-> [run EXCEPT !.pc = "done", !.outcome = "success"]]

\* generate() from its entry to the await of fetchOSMData
beginGenerate(w, fm) ==
    LET w1  == [w EXCEPT !.heap = Alloc(@), !.thisArena = Len(w.heap) + 1,
                         !.generated = GeneratedNothing]
        run == [pc |-> "await fetch", outcome |-> "none", error |-> "none",
                bbox |-> fm.bbox, config |-> fm.config, data |-> Null,
                layers |-> [l \in {LayerOrder[k] : k \in 1..4} |-> 0],
                k |-> 0, i |-> 0, frame |-> [pc |-> "none"]]
        err == validationError(fm.bbox, fm.config)
    IN  IF err # "none" THEN failed(w1, run, err)
        ELSE [w |-> [w1 EXCEPT !.progressLog = Append(@, Whole(5))], run |-> run]

\* "Generate STL files for each layer", layers k .. 4; made = generatedLayers
RECURSIVE exportLayers(_, _, _, _, _)
exportLayers(h, layers, locationName, k, made) ==
    IF k > 4 THEN [threw |-> FALSE, layers |-> made]
    ELSE IF layers[LayerOrder[k]] = 0
    THEN exportLayers(h, layers, locationName, k + 1, made)
    ELSE LET filename == locationName \o <<"-" \o LayerOrder[k]>> \o DotStl
             out == exportSTL(h[layers[LayerOrder[k]]], filename)
         IN  IF out.kind = "threw" THEN [threw |-> TRUE, layers |-> made]
             ELSE exportLayers(h, layers, locationName, k + 1,
                               (LayerOrder[k] :> out.value) @@ made)

\* the multi-material branch after its last processLayer call
finishMultiMaterial(w, run, fm) ==
    LET w1  == [w EXCEPT !.progressLog = Append(@, Whole(90))]
    IN  At(exportLayers(w1.heap, run.layers,
                            getLocationName(fm.citySearch, run.bbox), 1, <<>>),
           LAMBDA out :
             LET w2 == [w1 EXCEPT !.generated.layers = out.layers]
             IN  IF out.threw THEN failed(w2, run, "TypeError")
                 ELSE succeeded([w2 EXCEPT !.progressLog = Append(@, Whole(100))], run))

\* the multi-material branch from the "Process <layer k>" block on; and what
\* follows a step r = [w, f] of the processLayer call of layer k
RECURSIVE multiMaterialFrom(_, _, _, _), afterLayerStep(_, _, _, _)
multiMaterialFrom(w, run, k, fm) ==
    IF k > 4 THEN finishMultiMaterial(w, run, fm)
    ELSE LET layerType == LayerOrder[k]
             features  == run.data[layerType]
         IN  IF included(run.config, layerType) /\ Len(features) > 0
             THEN At(enterProcessLayer(w, [features |-> features,
                                           bbox |-> run.bbox,
                                           config |-> run.config,
                                           layerType |-> layerType,
                                           progressStart |-> progressStartOf(layerType),
                                           progressRange |-> progressRangeOf(layerType)]),
                     LAMBDA r : afterLayerStep(r, run, k, fm))
             ELSE multiMaterialFrom(w, run, k + 1, fm)

afterLayerStep(r, run, k, fm) ==
    IF r.f.pc = "returned"
    THEN At(<<r.w, [run EXCEPT !.layers[LayerOrder[k]] = r.f.returned]>>,
            LAMBDA a : multiMaterialFrom(a[1], a[2], k + 1, fm))
    ELSE IF r.f.pc = "threw" THEN failed(r.w, run, "TypeError")
    ELSE [w |-> r.w, run |-> [run EXCEPT !.pc = "await layer", !.k = k, !.frame = r.f]]

\* the combined branch after scaleCoordinates returned this.vertices / faces
finishCombined(w, run, fm) ==
    LET w1 == [w EXCEPT !.progressLog = Append(@, Whole(95))]
        combinedFilename == getLocationName(fm.citySearch, run.bbox)
                                \o <<"-combined">> \o DotStl
        out == exportSTL(w1.heap[w1.thisArena], combinedFilename)
    IN  IF out.kind = "threw" THEN failed(w1, run, "TypeError")
        ELSE succeeded([w1 EXCEPT !.generated.stlContent = out.value,
                                  !.generated.stlFilename = combinedFilename,
                                  !.progressLog = Append(@, Whole(100))], run)

scaleChunkOf(layerType) ==
    CASE layerType = "buildings" -> BUILDING_CHUNK
      [] layerType = "roads" -> ROAD_CHUNK
      [] layerType = "greens" -> GREEN_CHUNK
      [] layerType = "water" -> WATER_CHUNK

\* 10 + done/n*20, 30 + done/n*20, 50 + done/n*10, 60 + done/n*10
scaleProgress(layerType, done, n) ==
    LET start == CASE layerType = "buildings" -> 10
                   [] layerType = "roads" -> 30
                   [] layerType = "greens" -> 50
                   [] layerType = "water" -> 60
    IN  [num |-> start * n + done * progressRangeOf(layerType), den |-> n]

\* scaleCoordinates from feature i (1-based) of layer k up to the next
\* await, the return or the error
RECURSIVE scaleFrom(_, _, _, _, _)
scaleFrom(w, run, k, i, fm) ==
    IF k > 4 THEN finishCombined(w, run, fm)
    ELSE
        LET layerType == LayerOrder[k]
            features  == run.data[layerType]
            n         == Len(features)
            size      == scaleChunkOf(layerType)
            boundary  == ((i - 1) \div size + 1) * size
            end       == IF boundary < n THEN boundary ELSE n
        IN  IF ~included(run.config, layerType) \/ i > n
            THEN scaleFrom(w, run, k + 1, 1, fm)
            ELSE At(<<processRange(layerType, w.heap[w.thisArena], features, i, end,
                                   projection(run.bbox, run.config), run.config,
                                   maxBuildingHeightFrom(features, 1, n,
                                                         run.config.defaultHeight)),
                      end>>,
                    LAMBDA a :
                      At([w EXCEPT !.heap[w.thisArena] = a[1].mesh],
                         LAMBDA w1 :
                           IF a[1].threw THEN failed(w1, run, "TypeError")
                           ELSE IF a[2] % size = 0
                           THEN [w |-> [w1 EXCEPT !.progressLog =
                                            Append(@, scaleProgress(layerType, a[2], n))],
                                 run |-> [run EXCEPT !.pc = "await scale", !.k = k,
                                                     !.i = a[2] + 1]]
                           ELSE scaleFrom(w1, run, k + 1, 1, fm)))

\* scaleCoordinates from its entry
enterScaleCoordinates(w, run, fm) ==
    LET pr   == projection(run.bbox, run.config)
        base == createSolidBase(pr.baseSize, run.config.baseThickness)
    IN  At([w EXCEPT !.heap = Append(@, base), !.thisArena = Len(w.heap) + 1],
           LAMBDA w1 : scaleFrom(w1, run, 1, 1, fm))

\* generate() resumed with the features the Overpass request delivered
afterFetch(w, run, fm, data) ==
    LET w1   == [w EXCEPT !.progressLog = Append(@, Whole(10))]
        run1 == [run EXCEPT !.data = data]
    IN  IF fm.multiMaterial
        THEN multiMaterialFrom(w1, run1, 1, fm)
        ELSE enterScaleCoordinates(w1, run1, fm)

\* generate() resumed after a setTimeout(0) yield of processLayer or of
\* scaleCoordinates
afterYield(w, run, fm) ==
    IF run.pc = "await layer"
    THEN At(resumeProcessLayer(w, run.frame),
            LAMBDA r : afterLayerStep(r, run, run.k, fm))
    ELSE scaleFrom(w, run, run.k, run.i, fm)

(* Inputs: the page and what Overpass delivers *)

Rome == <<"R", "o", "m", "e", ",", " ", "I", "T">>

\* city-search, bounding box, configuration, multi-material
FormValues ==
    { <<Rome, ModelBBox, ModelConfig, TRUE>>,
      <<<<>>, ModelBBox, [ModelConfig EXCEPT !.includeGreens = FALSE], FALSE>>,
      <<<<" ">>, <<0, 20, 0, 0>>, ModelConfig, TRUE>>,
      <<<<",">>, ModelBBox, [ModelConfig EXCEPT !.roadHeight = 0], FALSE>>,
      <<<<>>, ModelBBox, [ModelConfig EXCEPT !.defaultHeight = 0, !.includeRoads = FALSE,
                                             !.roadWidth = 0], FALSE>> }

Forms ==
    { [autoGenerate |-> a, multiMaterial |-> v[4],
       citySearch |-> v[1], bbox |-> v[2], config |-> v[3]] :
        a \in BOOLEAN, v \in FormValues }

\* n features of which the first and the last belong to the layer
sparseFeatures(layerType, n) ==
    [i \in 1..n |-> IF i = 1 THEN goodFeature(layerType, 1)
                    ELSE IF i = n THEN goodFeature(layerType, 2)
                    ELSE goodFeature(layerType, 3)]

FetchedData ==
    { [buildings |-> <<>>, roads |-> <<>>, greens |-> <<>>, water |-> <<>>],
      [buildings |-> sparseFeatures("buildings", 1),
       roads |-> featureList("roads", 2, 0),
       greens |-> <<>>,
       water |-> sparseFeatures("water", 1)],
      [buildings |-> sparseFeatures("buildings", CHUNK_SIZE + 1),
       roads |-> sparseFeatures("roads", CHUNK_SIZE),
       greens |-> sparseFeatures("greens", 1),
       water |-> <<>>],
      [buildings |-> featureList("buildings", 2, 2),
       roads |-> <<>>, greens |-> <<>>, water |-> <<>>] }

InitGen ==
    /\ ArenaInit
    /\ StlIdle
    /\ AppInit
    /\ LayerIdle
    /\ form \in Forms
    /\ generateBtn = [disabled |-> FALSE]
    /\ autoGenerateTimeout = "null"
    /\ runs = <<>>
    /\ TimersIdle

InFlight == {n \in 1..Len(runs) : runs[n].pc # "done"}

\* a call of generate() is entered and runs up to its first await
Started(r) ==
    /\ SetWorld(r.w)
    /\ runs' = Append(runs, r.run)
    /\ generateBtn' = [disabled |-> r.run.pc # "done"]

\* the call n goes on and runs up to its next await or its end
Continued(n, r) ==
    /\ SetWorld(r.w)
    /\ runs' = [runs EXCEPT ![n] = r.run]
    /\ generateBtn' = IF r.run.pc = "done" THEN [disabled |-> FALSE] ELSE generateBtn

\* click on the generate button; a disabled button delivers no click
ClickGenerate ==
    /\ ~generateBtn.disabled
    /\ Len(runs) < MaxRuns
    /\ \E r \in {beginGenerate(World, form)} : Started(r)
    /\ UNCHANGED <<arenaVars, stlVars, layerVars, form, autoGenerateTimeout, timerVars>>

\* onParameterChange, on an input or change event of a parameter input
OnParameterChange ==
    /\ autoGenerateTimeout' = IF form.autoGenerate THEN "pending"
                              ELSE autoGenerateTimeout
    /\ UNCHANGED <<arenaVars, stlVars, appVars, layerVars, form, generateBtn, runs, timerVars>>

\* the debounce timer expires: () => this.generate()
AutoGenerateFires ==
    /\ autoGenerateTimeout = "pending"
    /\ Len(runs) < MaxRuns
    /\ autoGenerateTimeout' = "fired"
    /\ \E r \in {beginGenerate(World, form)} : Started(r)
    /\ UNCHANGED <<arenaVars, stlVars, layerVars, form, timerVars>>

FetchReturns ==
    \E n \in 1..Len(runs), data \in FetchedData :
        /\ runs[n].pc = "await fetch"
        /\ \E r \in {afterFetch(World, runs[n], form, data)} : Continued(n, r)
        /\ UNCHANGED <<arenaVars, stlVars, layerVars, form, autoGenerateTimeout, timerVars>>

\* the request fails: queryOverpass rethrows, generate() catches
FetchFails ==
    \E n \in 1..Len(runs) :
        /\ runs[n].pc = "await fetch"
        /\ \E r \in {failed(World, runs[n], "HTTP error")} : Continued(n, r)
        /\ UNCHANGED <<arenaVars, stlVars, layerVars, form, autoGenerateTimeout, timerVars>>

\* the host runs the continuation of a setTimeout(resolve, 0)
YieldReturns ==
    \E n \in 1..Len(runs) :
        /\ runs[n].pc \in {"await layer", "await scale"}
        /\ \E r \in {afterYield(World, runs[n], form)} : Continued(n, r)
        /\ UNCHANGED <<arenaVars, stlVars, layerVars, form, autoGenerateTimeout, timerVars>>

NextGen ==
    \/ ClickGenerate
    \/ OnParameterChange
    \/ AutoGenerateFires
    \/ FetchReturns
    \/ FetchFails
    \/ YieldReturns

SpecGen == InitGen /\ [][NextGen]_vars

----------------------------------------------------------------------------
(* The listeners of the parameter inputs and their timers.  Time advances   *)
(* in tenths of a second; a timer that is due runs before more time passes, *)
(* and of two timers due together the one set first runs first (the         *)
(* auto-generate timer, set 1.5 s before, ahead of a bounding-box timer,    *)
(* set 0.5 s before).                                                       *)

\* onParameterChange: clearTimeout, then setTimeout(() => this.generate(), 1500)
onParameterChange(fm, t) ==
    IF fm.autoGenerate THEN [t EXCEPT !.autoGenerate = Timer(DebounceTenths)] ELSE t

InitDebounce ==
    /\ ArenaInit
    /\ StlIdle
    /\ AppInit
    /\ LayerIdle
    /\ form \in {fm \in Forms : fm.citySearch = Rome}
    /\ generateBtn = [disabled |-> FALSE]
    /\ autoGenerateTimeout = "null"
    /\ runs = <<>>
    /\ TimersIdle

\* an input event is counted; the burst is broken when it comes 1.5 s or
\* more after the event before it
Noted(onBBox) ==
    /\ burst.changes < MaxChanges
    /\ burst' = [burst EXCEPT !.changes = @ + 1,
                              !.quiet = 0,
                              !.broken = @ \/ (burst.changes > 0
                                                /\ burst.quiet >= DebounceTenths),
                              !.bbox = @ \/ onBBox]

Armed(t) ==
    /\ timers' = t
    /\ autoGenerateTimeout' = IF t.autoGenerate.pending THEN "pending"
                              ELSE autoGenerateTimeout

\* 'input' or 'change' on one of paramInputs, 'change' on include-roads
ParameterInput ==
    /\ Noted(FALSE)
    /\ Armed(onParameterChange(form, timers))
    /\ UNCHANGED <<arenaVars, stlVars, appVars, layerVars, form, generateBtn, runs>>

\* 'input' on a bounding-box input: clearTimeout(timeout); setTimeout(..., 500)
BBoxInput ==
    \E id \in BBoxInputs :
        /\ Noted(TRUE)
        /\ timers' = [timers EXCEPT !.bbox[id] = Timer(BBoxDebounceTenths)]
        /\ UNCHANGED <<arenaVars, stlVars, appVars, layerVars, pageVars>>

\* the 500 ms timer of a bounding-box input expires:
\* this.updateMapPreview(); this.onParameterChange()
BBoxTimerExpires ==
    \E id \in BBoxInputs :
        /\ Due(timers.bbox[id])
        /\ ~Due(timers.autoGenerate)
        /\ Armed(onParameterChange(form, [timers EXCEPT !.bbox[id] = NoTimer]))
        /\ UNCHANGED <<arenaVars, stlVars, appVars, layerVars, form, generateBtn, runs,
                       burst>>

\* the 1500 ms timer expires: () => this.generate()
DebounceExpires ==
    /\ Due(timers.autoGenerate)
    /\ Len(runs) < MaxRuns
    /\ timers' = [timers EXCEPT !.autoGenerate = NoTimer]
    /\ autoGenerateTimeout' = "fired"
    /\ burst' = [burst EXCEPT !.startedAfter = Append(@, burst.quiet)]
    /\ \E r \in {beginGenerate(World, form)} : Started(r)
    /\ UNCHANGED <<arenaVars, stlVars, layerVars, form>>

Elapsed(timer) == IF timer.pending THEN Timer(timer.left - 1) ELSE timer

\* a tenth of a second passes
TimePasses ==
    /\ burst.changes > 0
    /\ burst.quiet < MaxQuiet
    /\ ~Due(timers.autoGenerate)
    /\ \A id \in BBoxInputs : ~Due(timers.bbox[id])
    /\ timers' = [autoGenerate |-> Elapsed(timers.autoGenerate),
                  bbox |-> [id \in BBoxInputs |-> Elapsed(timers.bbox[id])]]
    /\ burst' = [burst EXCEPT !.quiet = @ + 1]
    /\ UNCHANGED <<arenaVars, stlVars, appVars, layerVars, pageVars>>

NextDebounce ==
    \/ ParameterInput
    \/ BBoxInput
    \/ BBoxTimerExpires
    \/ DebounceExpires
    \/ TimePasses

SpecDebounce == InitDebounce /\ [][NextDebounce]_vars

----------------------------------------------------------------------------
(* Functions of the program, each applied once to given arguments *)

\* values a height tag may hold
TagValues ==
    { Undef, Num(4000), Num(0), NaN,
      Str(<<"5">>), Str(<<"1", "2", ".", "5", " ", "m">>), Str(<<"t", "a", "l", "l">>),
      Str(<<"c", "a", " ", "1", "2">>) }

DefaultHeights == {1000}

HeightCalls ==
    { [op |-> "getBuildingHeight", pc |-> "called",
       feature |-> PolygonFeature(SquareAt(1, 1), Tags(h, b, l)),
       defaultHeight |-> d] :
        h \in TagValues, b \in TagValues, l \in TagValues, d \in DefaultHeights }

\* the points a line is drawn through (even numbers of hundredths of a
\* millimetre: the halves of the averaged tangents are whole) and the widths
LinePoints == { <<0, 0>>, <<600, 0>>, <<600, 800>>, <<0, 800>> }

LineWidths == {0, 200}

LinesOf(n) == [1..n -> LinePoints]

BufferCalls ==
    { [op |-> "bufferLineString", pc |-> "called", coords |-> c, width |-> w] :
        c \in UNION {LinesOf(n) : n \in 0..MaxLinePoints}, w \in LineWidths }

PureCalls == HeightCalls \cup BufferCalls

InitPure ==
    /\ ArenaInit
    /\ StlIdle
    /\ AppInit
    /\ PageIdle
    /\ layerCall = [pc |-> "none"]
    /\ pureCall \in PureCalls

Returned(result) ==
    /\ pureCall.pc = "called"
    /\ pureCall' = [pureCall EXCEPT !.pc = "returned"] @@ [result |-> result]
    /\ UNCHANGED <<arenaVars, stlVars, appVars, layerCall, pageVars, timerVars>>

GetBuildingHeight ==
    /\ pureCall.op = "getBuildingHeight"
    /\ Returned(getBuildingHeight(pureCall.feature, pureCall.defaultHeight))

BufferLineString ==
    /\ pureCall.op = "bufferLineString"
    /\ Returned(bufferLineString(pureCall.coords, pureCall.width))

NextPure ==
    \/ GetBuildingHeight
    \/ BufferLineString

SpecPure == InitPure /\ [][NextPure]_vars

----------------------------------------------------------------------------
(* Claims about the mesh arena, checked under Spec *)

\* the point count of a ring once one duplicated closing point is dropped
PointCount(ring) == Len(cleanCoords(ring))

FaceInRange(face, vertexCount) ==
    /\ Len(face) = 3
    /\ \A p \in 1..3 : face[p] >= 0 /\ face[p] < vertexCount

\* C1: after any sequence of arena operations every stored face has exactly
\* 3 indices, each >= 0 and < the current vertex count, and validateMesh
\* reports the mesh valid whenever it is not empty.
C1_FacesIndexStoredVertices ==
    /\ \A k \in 1..Len(faces) : FaceInRange(faces[k], Len(vertices))
    /\ (Len(vertices) > 0 \/ Len(faces) > 0) =>
          validateMesh(vertices, faces).valid

C1_Witness ==
    /\ last.op = "addPrismFromPolygon"
    /\ Len(prevVertices) > 0
    /\ Len(vertices) > Len(prevVertices)
    /\ validateMesh(vertices, faces).valid

\* C2: for a ring whose point count n (closing point dropped) is in 3..500,
\* addPrismFromPolygon appends exactly 2n vertices and 2n + 2(n-2) faces.
C2_PrismAppendsCounts ==
    last.op = "addPrismFromPolygon" =>
        LET n == PointCount(last.coords)
        IN  (3 <= n /\ n <= 500) =>
                /\ Len(vertices) = Len(prevVertices) + 2 * n
                /\ Len(faces) = Len(prevFaces) + 2 * n + 2 * (n - 2)

C2_Witness ==
    /\ last.op = "addPrismFromPolygon"
    /\ PointCount(last.coords) = 500
    /\ Len(last.coords) = 501
    /\ Len(prevVertices) > 0
    /\ Len(vertices) = Len(prevVertices) + 1000

\* C3: for a ring, with or without its closing point, whose cleaned point
\* count k is in 3..1000, addPrismFromPolygonTriangulated appends exactly 2k
\* vertices (k bottom then k top) and 2(k-2) cap faces plus 2k side faces.
C3_TriangulatedAppendsCounts ==
    last.op = "addPrismFromPolygonTriangulated" =>
        LET clean == cleanCoords(last.coords)
            k     == Len(clean)
            base  == Len(prevVertices)
        IN  (3 <= k /\ k <= 1000) =>
                /\ Len(vertices) = base + 2 * k
                /\ \A i \in 1..k :
                      /\ vertices[base + i] = <<clean[i][1], clean[i][2], last.z0>>
                      /\ vertices[base + k + i] = <<clean[i][1], clean[i][2], last.z1>>
                /\ Len(faces) = Len(prevFaces) + 2 * (k - 2) + 2 * k

\* C4: addPrismFromPolygon given a ring of more than 500 points, and
\* addPrismFromPolygonTriangulated given a ring of more than 1000 points,
\* leave the vertex list and the face list exactly as they were;
\* triangulatePolygon returns no triangle for a ring of more than 1000
\* points.  (Points are counted as in C2: closing point dropped.)
C4_OversizedRingsRejected ==
    /\ (last.op = "addPrismFromPolygon" /\ PointCount(last.coords) > 500) =>
          (vertices = prevVertices /\ faces = prevFaces)
    /\ (last.op = "addPrismFromPolygonTriangulated" /\ PointCount(last.coords) > 1000) =>
          (vertices = prevVertices /\ faces = prevFaces)
    /\ (last.op = "triangulatePolygon" /\ PointCount(last.coords) > 1000) =>
          last.triangles = <<>>

C4_Witness ==
    /\ last.op = "addPrismFromPolygon"
    /\ PointCount(last.coords) = 501
    /\ Len(prevVertices) > 0
    /\ vertices = prevVertices
    /\ faces = prevFaces

\* C5: triangulatePolygon on a ring of k points (3 <= k <= 1000, closing
\* point removed or present) returns exactly k-2 triangles, the i-th being
\* (0, i, i+1).
C5_FanOfKMinus2Triangles ==
    last.op = "triangulatePolygon" =>
        LET k == PointCount(last.coords)
        IN  (3 <= k /\ k <= 1000) =>
                /\ Len(last.triangles) = k - 2
                /\ \A i \in 1..(k - 2) : last.triangles[i] = <<0, i, i + 1>>

\* the corners of [0, size] x [0, size] x [0, thickness]
Corners(size, thickness) == {0, size} \X {0, size} \X {0, thickness}

\* C17: createSolidBase(size, thickness) returns exactly 8 vertices, the
\* corners of [0, size] x [0, size] x [0, thickness], and 12 faces of three
\* indices each into those 8 vertices, whatever size and thickness are; the
\* vertex list and the face list of the arena are left as they were.
C17_BaseIsEightCornersTwelveFaces ==
    last.op = "createSolidBase" =>
        /\ Len(last.base.vertices) = 8
        /\ {last.base.vertices[k] : k \in 1..8} = Corners(last.size, last.thickness)
        /\ \A c \in Corners(last.size, last.thickness) :
               Cardinality({k \in 1..8 : last.base.vertices[k] = c})
                   = 8 \div Cardinality(Corners(last.size, last.thickness))
        /\ Len(last.base.faces) = 12
        /\ \A k \in 1..12 : FaceInRange(last.base.faces[k], 8)
        /\ vertices = prevVertices
        /\ faces = prevFaces

C17_Witness ==
    /\ last.op = "createSolidBase"
    /\ last.size = 100
    /\ last.thickness = 2
    /\ Len(last.base.vertices) = 8
    /\ Len(last.base.faces) = 12
    /\ Len(vertices) > 0
    /\ vertices = prevVertices

\* C18: after reset() getMesh() returns no vertex and no face, and a prism
\* added next gets the vertices and the face indices it gets in a fresh
\* arena.
C18_ResetGivesFreshArena ==
    [][ /\ last'.op = "reset" => getMesh' = Mesh(<<>>, <<>>)
        /\ (last.op = "reset" /\ last'.op = "addPrismFromPolygon") =>
               getMesh' = addPrismFromPolygon(<<>>, <<>>, last'.coords, last'.z0, last'.z1)
        /\ (last.op = "reset" /\ last'.op = "addPrismFromPolygonTriangulated") =>
               getMesh' = addPrismFromPolygonTriangulated(<<>>, <<>>, last'.coords,
                                                          last'.z0, last'.z1) ]_vars

C18_Witness ==
    /\ nOps = 3
    /\ last.op = "addPrismFromPolygon"
    /\ prevVertices = <<>>
    /\ Len(vertices) = 8
    /\ faces[1] = <<0, 2, 1>>

IsPrefix(before, after) ==
    /\ Len(before) <= Len(after)
    /\ SubSeq(after, 1, Len(before)) = before

\* C23: addPrismFromPolygon and addPrismFromPolygonTriangulated never change,
\* reorder or remove a vertex or a face stored before the call: the lists
\* before the call are a prefix of the lists after it.
C23_PrismsOnlyAppend ==
    last.op \in {"addPrismFromPolygon", "addPrismFromPolygonTriangulated"} =>
        /\ IsPrefix(prevVertices, vertices)
        /\ IsPrefix(prevFaces, faces)

C23_Witness ==
    /\ last.op = "addPrismFromPolygonTriangulated"
    /\ Len(prevVertices) > 0
    /\ Len(prevFaces) > 0
    /\ Len(vertices) > Len(prevVertices)
    /\ Len(faces) > Len(prevFaces)
    /\ IsPrefix(prevVertices, vertices)
    /\ IsPrefix(prevFaces, faces)

----------------------------------------------------------------------------
(* Claims about the serializer and the validator, checked under SpecSTL *)

WellFormed(vs, fs) == \A k \in 1..Len(fs) : FaceInRange(fs[k], Len(vs))

\* C6: for a mesh with F faces (each 3 indices into the vertex list),
\* generateSTL emits one "solid <name>" line, then exactly F facet blocks in
\* face order, each listing the face's three vertices in index order, then
\* one "endsolid <name>" line carrying the name of the "solid" line.
C6_SolidFacetsEndsolid ==
    (stlCall \in {"STLGenerator.generateSTL", "OSMToSTL.generateSTL"}
        /\ WellFormed(stlVertices, stlFaces)) =>
        /\ stlResult.kind = "returned"
        /\ LET text == stlResult.value
               F    == Len(stlFaces)
               V(k, p) == stlVertices[stlFaces[k][p] + 1]
           IN  /\ Len(text) = 7 * F + 2
               /\ text[1][1] = "solid"
               /\ text[Len(text)] = <<"endsolid", text[1][2]>>
               /\ Cardinality({i \in 1..Len(text) : text[i][1] = "facet normal"}) = F
               /\ \A k \in 1..F :
                     LET b == 7 * (k - 1) + 2
                     IN  /\ text[b][1] = "facet normal"
                         /\ text[b + 1] = <<"outer loop">>
                         /\ \A p \in 1..3 :
                               text[b + 1 + p] =
                                   <<"vertex", formatNum(V(k, p)[1]),
                                     formatNum(V(k, p)[2]), formatNum(V(k, p)[3])>>
                         /\ text[b + 5] = <<"endloop">>
                         /\ text[b + 6] = <<"endfacet">>

C6_Witness ==
    /\ stlCall = "STLGenerator.generateSTL"
    /\ stlVertices = CubeVertices
    /\ stlFaces = CubeFaces
    /\ stlFilename = TestStl
    /\ stlResult.kind = "returned"
    /\ stlResult.value[1] = <<"solid", <<"t">> >>
    /\ Len(stlResult.value) = 86

\* C7: validateMesh returns valid = false with a non-empty error list
\* exactly when the vertex list is empty, or the face list is empty, or some
\* face has not exactly 3 indices, or some face index is < 0 or >= the vertex
\* count; otherwise valid = true with zero errors; its arguments are left
\* as they were.
MeshIsBad(vs, fs) ==
    \/ Len(vs) = 0
    \/ Len(fs) = 0
    \/ \E k \in 1..Len(fs) : Len(fs[k]) # 3
    \/ \E k \in 1..Len(fs) : \E p \in 1..Len(fs[k]) :
          fs[k][p] < 0 \/ fs[k][p] >= Len(vs)

C7_ValidateMeshVerdict ==
    [][(stlCall = "none" /\ stlCall' = "validateMesh") =>
          /\ stlResult'.kind = "returned"
          /\ IF MeshIsBad(stlVertices, stlFaces)
             THEN ~stlResult'.value.valid /\ Len(stlResult'.value.errors) > 0
             ELSE stlResult'.value.valid /\ Len(stlResult'.value.errors) = 0
          /\ stlVertices' = stlVertices
          /\ stlFaces' = stlFaces]_vars

C7_Witness ==
    /\ stlCall = "validateMesh"
    /\ Len(stlVertices) = 3
    /\ stlFaces = << <<0, 1, 2>>, <<0, 1, 3>> >>
    /\ ~stlResult.value.valid
    /\ stlResult.value.errors = << <<"invalid index", 1, 3>> >>

\* C8: serialization never fails: for every mesh, also one validateMesh
\* reports invalid, the pipeline's generateSTL logs the validation errors
\* and still returns STL text without raising an error.
C8_SerializationNeverFails ==
    stlCall = "OSMToSTL.generateSTL" =>
        /\ stlResult.kind = "returned"
        /\ ~validateMesh(stlVertices, stlFaces).valid => Len(stlWarnings) > 0

----------------------------------------------------------------------------
(* Claims about one layer build, checked under SpecLayer *)

AllFeatures(f) == [i \in 1..Len(f.features) |-> i]

\* C9: in every layer kind (buildings, roads, greens, water) a feature whose
\* processing raises an error is skipped alone: the layer build never ends
\* with the error, and when it returns its mesh every feature of the list,
\* in the same batch and in the later ones, has been reached.
C9_FeatureErrorSkipsOnlyThatFeature ==
    /\ layerCall.pc # "threw"
    /\ layerCall.pc = "returned" => layerCall.visited = AllFeatures(layerCall)

----------------------------------------------------------------------------
(* Claims about the generation runs, checked under SpecGen *)

\* C10: whatever the interleaving of clicks on the generate button, expiries
\* of the debounce timer and yields between batches, at most one generation
\* run is in flight at a time.
C10_AtMostOneRunInFlight == Cardinality(InFlight) <= 1

\* the layer meshes a run holds: <<run, layer>> pairs
LayerMeshes ==
    {p \in (1..Len(runs)) \X {LayerOrder[k] : k \in 1..4} : runs[p[1]].layers[p[2]] # 0}

LayerArena(p) == runs[p[1]].layers[p[2]]

\* the mesh processLayer builds for the features of layer p of its run when
\* nothing else touches the arrays
BuiltAlone(p) ==
    processRange(p[2], Mesh(<<>>, <<>>), runs[p[1]].data[p[2]], 1,
                 Len(runs[p[1]].data[p[2]]),
                 projection(runs[p[1]].bbox, runs[p[1]].config), runs[p[1]].config,
                 maxBuildingHeightFrom(runs[p[1]].data[p[2]], 1,
                                       Len(runs[p[1]].data[p[2]]),
                                       runs[p[1]].config.defaultHeight)).mesh

\* C11: in multi-material mode each layer mesh returned by processLayer is
\* built from its own initially empty lists: its faces index its own vertices,
\* it holds the prisms of its own features only, and its arrays are neither
\* those of another layer nor those of this.vertices / this.faces.
C11_LayerMeshesIndependent ==
    \A p \in LayerMeshes :
        /\ \A k \in 1..Len(heap[LayerArena(p)].faces) :
               FaceInRange(heap[LayerArena(p)].faces[k], Len(heap[LayerArena(p)].vertices))
        /\ heap[LayerArena(p)] = BuiltAlone(p)
        /\ LayerArena(p) # thisArena
        /\ \A q \in LayerMeshes : q # p => LayerArena(q) # LayerArena(p)

----------------------------------------------------------------------------
(* Claims about single functions, checked under SpecPure *)

\* the number a tag makes available: a number that is not NaN, or the
\* decimal number a string holds; none for any other tag
Available(value) ==
    \/ value.kind = "number"
    \/ value.kind = "string" /\ heightMatch(value.chars).matched

NumberOf(value) ==
    IF value.kind = "number" THEN value.value
    ELSE parseFloatOf(value.chars, heightMatch(value.chars))

\* C12: getBuildingHeight returns the first available of: the height tag, the
\* building:height tag, the building:levels tag multiplied by 3, and else the
\* default height; a feature carrying only building:levels = L, as a number
\* or as a numeric string, has raw height 3 * L.
C12_HeightFallbackOrder ==
    (pureCall.op = "getBuildingHeight" /\ pureCall.pc = "returned") =>
        LET tags == pureCall.feature.tags
        IN  pureCall.result =
                IF Available(tags["height"]) THEN NumberOf(tags["height"])
                ELSE IF Available(tags["building:height"])
                THEN NumberOf(tags["building:height"])
                ELSE IF Available(tags["building:levels"])
                THEN 3 * NumberOf(tags["building:levels"])
                ELSE pureCall.defaultHeight

----------------------------------------------------------------------------
(* Claims about the buildings of a layer build, checked under SpecLayer *)

BuildingsReturned ==
    /\ layerCall.pc = "returned"
    /\ layerCall.layerType = "buildings"

RawHeight(f, feature) == getBuildingHeight(feature, f.config.defaultHeight)

\* the maximum raw height over the whole feature set (0 for an empty set)
MaxRawHeight(f) ==
    IF Len(f.features) = 0 THEN 0
    ELSE CHOOSE m \in {RawHeight(f, f.features[i]) : i \in 1..Len(f.features)} :
             \A i \in 1..Len(f.features) : RawHeight(f, f.features[i]) <= m

\* the buildings that are extruded: polygons of at most 500 ring entries and
\* at least 3 points
Extruded(feature) ==
    /\ feature.type = "Polygon"
    /\ Len(feature.coordinates[1]) <= MaxBuildingRing
    /\ PointCount(feature.coordinates[1]) >= 3

\* h * scale with scale = maxHeight / M, or 1 when M is 0
ScaledBy(f, h, M) == IF M = 0 THEN h ELSE (h * f.config.maxHeight) \div M

\* the z coordinates, in the order of the vertex list, of prisms standing
\* on baseThickness and as high as their raw height scaled by maxHeight / M
RECURSIVE PrismHeights(_, _, _, _)
PrismHeights(f, M, lo, hi) ==
    IF lo > hi THEN <<>>
    ELSE IF lo = hi
    THEN IF Extruded(f.features[lo])
         THEN [k \in 1..(2 * PointCount(f.features[lo].coordinates[1])) |->
                  IF k % 2 = 1 THEN f.config.baseThickness
                  ELSE f.config.baseThickness
                           + ScaledBy(f, RawHeight(f, f.features[lo]), M)]
         ELSE <<>>
    ELSE PrismHeights(f, M, lo, (lo + hi) \div 2)
             \o PrismHeights(f, M, (lo + hi) \div 2 + 1, hi)

HeightsBuilt(f) ==
    [k \in 1..Len(heap[f.returned].vertices) |-> heap[f.returned].vertices[k][3]]

TopOfMesh(f) ==
    CHOOSE z \in {HeightsBuilt(f)[k] : k \in 1..Len(HeightsBuilt(f))} :
        \A k \in 1..Len(HeightsBuilt(f)) : HeightsBuilt(f)[k] <= z

\* C13: with M the maximum raw height over the whole feature set,
\* the scale is maxHeight / M (1 when M is 0), each building of raw height h
\* is extruded from baseThickness to baseThickness + h * scale, and the
\* tallest building's top is at baseThickness + maxHeight.
C13_TallestReachesMaxHeight ==
    BuildingsReturned =>
        /\ HeightsBuilt(layerCall)
               = PrismHeights(layerCall, MaxRawHeight(layerCall), 1, Len(layerCall.features))
        /\ Len(heap[layerCall.returned].vertices) > 0 =>
               TopOfMesh(layerCall) = layerCall.config.baseThickness + layerCall.config.maxHeight

----------------------------------------------------------------------------
(* Claims about the checks of generate(), checked under SpecGen *)

InvalidBBox(bbox) == bbox[1] <= bbox[3] \/ bbox[2] <= bbox[4]

BBoxMessage ==
    "Invalid bounding box coordinates. North must be > South, East must be > West."

\* the call of generate() that a step enters, when it enters one
EntersGenerate == Len(runs') = Len(runs) + 1

\* the run ended in the error status at once: nothing fetched, no progress
\* shown, no feature put into any arena, nothing generated, button enabled
RejectedAtOnce ==
    LET run == runs'[Len(runs')]
    IN  /\ run.pc = "done"
        /\ run.outcome = "error"
        /\ run.data = Null
        /\ \A l \in DOMAIN run.layers : run.layers[l] = 0
        /\ progressLog' = progressLog
        /\ heap' = Append(heap, Mesh(<<>>, <<>>))
        /\ thisArena' = Len(heap')
        /\ generated' = GeneratedNothing
        /\ ~generateBtn'.disabled

\* C14: a call of generate() with north <= south or east <= west ends in the
\* error status before any fetch and before any geometry is built; no STL
\* is produced and the generate button is enabled again.
C14_InvalidBBoxStopsBeforeFetch ==
    [][ (EntersGenerate /\ InvalidBBox(form.bbox)) =>
            /\ RejectedAtOnce
            /\ runs'[Len(runs')].error = BBoxMessage ]_vars

C14_Witness ==
    /\ InvalidBBox(form.bbox)
    /\ Len(runs) > 0
    /\ runs[Len(runs)].error = BBoxMessage
    /\ ~generateBtn.disabled

\* some size field is not > 0, or roads are included and a road field is not > 0
ConfigNotPositive(config) ==
    \/ config.targetSize <= 0
    \/ config.maxHeight <= 0
    \/ config.defaultHeight <= 0
    \/ config.baseThickness <= 0
    \/ config.includeRoads /\ (config.roadWidth <= 0 \/ config.roadHeight <= 0)

\* C15: a call of generate() with a valid bounding box is rejected before
\* any fetch or geometry work exactly when targetSize, maxHeight,
\* defaultHeight or baseThickness is not > 0, or includeRoads is true and
\* roadWidth or roadHeight is not > 0.
C15_RejectsExactlyNonPositiveConfig ==
    [][ (EntersGenerate /\ ~InvalidBBox(form.bbox)) =>
            /\ ConfigNotPositive(form.config) => RejectedAtOnce
            /\ ~ConfigNotPositive(form.config) =>
                   /\ runs'[Len(runs')].pc = "await fetch"
                   /\ runs'[Len(runs')].outcome = "none" ]_vars

----------------------------------------------------------------------------
(* Claims about the combined mesh, checked under SpecGen *)

\* the mesh processLayer builds for the features of a layer of a run
LayerAlone(run, layerType) ==
    IF included(run.config, layerType)
    THEN processRange(layerType, Mesh(<<>>, <<>>), run.data[layerType], 1,
                      Len(run.data[layerType]),
                      projection(run.bbox, run.config), run.config,
                      maxBuildingHeightFrom(run.data[layerType], 1,
                                            Len(run.data[layerType]),
                                            run.config.defaultHeight)).mesh
    ELSE Mesh(<<>>, <<>>)

\* mesh followed by more, the face indices of more shifted by the number of
\* vertices of mesh
Followed(mesh, more) ==
    Mesh(mesh.vertices \o more.vertices,
         mesh.faces \o [k \in 1..Len(more.faces) |->
                           [j \in 1..Len(more.faces[k]) |->
                               more.faces[k][j] + Len(mesh.vertices)]])

BasePlusLayers(run) ==
    Followed(Followed(Followed(Followed(
        createSolidBase(projection(run.bbox, run.config).baseSize,
                        run.config.baseThickness),
        LayerAlone(run, "buildings")),
        LayerAlone(run, "roads")),
        LayerAlone(run, "greens")),
        LayerAlone(run, "water"))

\* the call n of generate() ends in this step, combined mode, with an STL
CombinedDone(n) ==
    /\ ~form.multiMaterial
    /\ runs[n].pc # "done"
    /\ runs'[n].pc = "done"
    /\ runs'[n].outcome = "success"

\* C16: in combined mode the mesh scaleCoordinates returns is the base plate
\* (8 vertices, 12 faces) followed by the prisms processLayer produces for the
\* same features and config, buildings, then roads, greens and water when
\* enabled, each face index shifted by the number of vertices stored before.
C16_CombinedIsBasePlusLayers ==
    [][ \A n \in 1..Len(runs) :
            CombinedDone(n) =>
                generated'.stlContent.mesh = BasePlusLayers(runs'[n]) ]_vars

----------------------------------------------------------------------------
(* Claims about the winding of the faces, checked under Spec *)

RECURSIVE SumOfVertices(_, _)
SumOfVertices(vs, k) ==
    IF k = 0 THEN <<0, 0, 0>>
    ELSE LET rest == SumOfVertices(vs, k - 1)
         IN  <<rest[1] + vs[k][1], rest[2] + vs[k][2], rest[3] + vs[k][3]>>

\* the normal (v1 - v0) x (v2 - v0) of the face points away from the centre
\* of the solid whose vertices are solid; the face's indices count from offset
PointsOutward(solid, face, offset) ==
    LET v0     == solid[face[1] - offset + 1]
        v1     == solid[face[2] - offset + 1]
        v2     == solid[face[3] - offset + 1]
        normal == crossProduct(v0, v1, v2)
        total  == SumOfVertices(solid, Len(solid))
        away   == [c \in 1..3 |-> Len(solid) * (v0[c] + v1[c] + v2[c]) - 3 * total[c]]
    IN  normal[1] * away[1] + normal[2] * away[2] + normal[3] * away[3] > 0

\* the face lies in the plane z = level and its normal has the given sign
CapNormal(solid, face, offset, level, sign) ==
    LET v0 == solid[face[1] - offset + 1]
        v1 == solid[face[2] - offset + 1]
        v2 == solid[face[3] - offset + 1]
    IN  (v0[3] = level /\ v1[3] = level /\ v2[3] = level) =>
            /\ crossProduct(v0, v1, v2)[1] = 0
            /\ crossProduct(v0, v1, v2)[2] = 0
            /\ crossProduct(v0, v1, v2)[3] * sign > 0

WoundOutward(solid, fs, offset, z0, z1) ==
    \A k \in 1..Len(fs) :
        /\ PointsOutward(solid, fs[k], offset)
        /\ CapNormal(solid, fs[k], offset, z1, 1)
        /\ CapNormal(solid, fs[k], offset, z0, -1)

\* a ring that turns left at every corner
ConvexCCW(clean) ==
    /\ Len(clean) >= 3
    /\ \A i \in 1..Len(clean) :
           LET a == clean[i]
               b == clean[(i % Len(clean)) + 1]
               c == clean[((i + 1) % Len(clean)) + 1]
           IN  (b[1] - a[1]) * (c[2] - b[2]) - (b[2] - a[2]) * (c[1] - b[1]) > 0

\* the solid the last call put into the arena
NewVertices == SubSeq(vertices, Len(prevVertices) + 1, Len(vertices))
NewFaces == SubSeq(faces, Len(prevFaces) + 1, Len(faces))

PrismFromConvexRing ==
    /\ last.op \in {"addPrismFromPolygon", "addPrismFromPolygonTriangulated"}
    /\ ConvexCCW(cleanCoords(last.coords))
    /\ last.z1 > last.z0
    /\ Len(vertices) > Len(prevVertices)

\* C19: the normal (v1 - v0) x (v2 - v0) of every face of the base plate and
\* of every prism built from a convex counter-clockwise ring with z1 > z0
\* points away from the interior: +z on top faces, -z on bottom faces,
\* outward on side faces.
C19_NormalsPointOutward ==
    /\ (last.op = "createSolidBase" /\ last.size > 0 /\ last.thickness > 0) =>
           WoundOutward(last.base.vertices, last.base.faces, 0, 0, last.thickness)
    /\ PrismFromConvexRing =>
           WoundOutward(NewVertices, NewFaces, Len(prevVertices), last.z0, last.z1)

\* the part of C19 about prisms
PrismsWoundOutward ==
    PrismFromConvexRing =>
        WoundOutward(NewVertices, NewFaces, Len(prevVertices), last.z0, last.z1)

----------------------------------------------------------------------------
(* Claims about the name of the solid, checked under SpecSTL *)

EndsWithDotStl(filename) ==
    /\ Len(filename) >= 4
    /\ SubSeq(filename, Len(filename) - 3, Len(filename)) = DotStl

\* the filename without a trailing ".stl"
Stem(filename) ==
    IF EndsWithDotStl(filename) THEN SubSeq(filename, 1, Len(filename) - 4)
    ELSE filename

\* C20: the name on the "solid" and "endsolid" lines is the filename with a
\* trailing ".stl" removed and every other character unchanged; a filename
\* without that suffix is used as it is.
C20_NameIsFilenameWithoutSuffix ==
    (stlCall \in {"STLGenerator.generateSTL", "OSMToSTL.generateSTL"}
        /\ stlResult.kind = "returned") =>
        /\ stlResult.value[1] = <<"solid", Stem(stlFilename)>>
        /\ stlResult.value[Len(stlResult.value)] = <<"endsolid", Stem(stlFilename)>>

\* the part of C20 about filenames that hold ".stl" at most once, at the end
NameOfPlainFilename ==
    (stlFilename # TwoSuffix) => C20_NameIsFilenameWithoutSuffix

----------------------------------------------------------------------------
(* Claims about the batches of a layer build, checked under SpecLayer *)

\* the features reached so far are 0 .. k-1 in increasing order, each once,
\* and at an await k is a whole number of batches of CHUNK_SIZE
VisitedInBatches ==
    layerCall.pc \in {"await yield", "await next chunk", "returned", "threw"} =>
        /\ \A i \in 1..Len(layerCall.visited) : layerCall.visited[i] = i
        /\ layerCall.pc \in {"await yield", "await next chunk"} =>
               /\ Len(layerCall.visited) = (layerCall.chunk + 1) * CHUNK_SIZE
               /\ Len(layerCall.visited) < Len(layerCall.features)
        /\ (layerCall.pc = "returned" /\ Len(layerCall.features) > 0) =>
               layerCall.visited = AllFeatures(layerCall)

\* the call is neither about to start nor waiting at an await
LayerCallEnded ==
    layerCall.pc \notin {"called", "await yield", "await next chunk"}

\* C21: a layer build started by processLayer on N features always runs to
\* completion: it visits the features in batches of 50, yields to the host
\* only between batches, processes every feature 0 .. N-1 exactly once in
\* increasing order (also when N is no multiple of 50), and eventually
\* returns its mesh.
C21_LayerBuildCompletes ==
    /\ VisitedInBatches
    /\ LayerCallEnded => layerCall.pc = "returned"

\* the part of C21 that holds, checked under SpecLayerFair: a build none of
\* whose features raises an error returns, having visited every feature in
\* order
BuildWithoutErrorCompletes ==
    /\ []VisitedInBatches
    /\ <>(layerCall.pc \in {"returned", "threw"})

\* a progress value num / den compared with a whole number and with another
AtLeast(p, n) == p.num >= n * p.den
AtMost(p, n) == p.num <= n * p.den
NotBelow(p, q) == p.num * q.den >= q.num * p.den

\* every value reported so far lies in [progressStart, progressStart +
\* progressRange], and no value is below the one reported before it
ProgressWithinRange ==
    layerCall.pc \in {"await yield", "await next chunk", "returned", "threw"} =>
        /\ \A k \in 1..Len(progressLog) :
               /\ AtLeast(progressLog[k], layerCall.progressStart)
               /\ AtMost(progressLog[k], layerCall.progressStart + layerCall.progressRange)
        /\ \A k \in 2..Len(progressLog) : NotBelow(progressLog[k], progressLog[k - 1])

\* the batches processed so far
BatchesDone ==
    IF layerCall.pc = "returned" THEN layerCall.totalChunks
    ELSE IF layerCall.pc = "await next chunk" THEN layerCall.chunk + 1
    ELSE Len(progressLog)

\* C22: processLayer reports a progress value after each batch it processes,
\* the last one included; every reported value lies in [progressStart,
\* progressStart + progressRange] and the values never decrease.
C22_ProgressAfterEveryBatch ==
    /\ ProgressWithinRange
    /\ (layerCall.pc \in {"await next chunk", "returned"} /\ Len(layerCall.features) > 0) =>
           Len(progressLog) = BatchesDone

\* the part of C22 that holds: a value after every batch but the last
ProgressAfterEveryBatchButTheLast ==
    /\ ProgressWithinRange
    /\ layerCall.pc = "await next chunk" => Len(progressLog) = layerCall.chunk + 1
    /\ (layerCall.pc = "returned" /\ Len(layerCall.features) > 0) =>
           Len(progressLog) = layerCall.totalChunks - 1

\* the arrays this.vertices / this.faces named when the call began
ArenaFound == IF layerCall.pc = "called" THEN thisArena ELSE layerCall.oldArena

\* C24: whenever a processLayer call ends, by the early return for an empty
\* feature list, by normal completion or by an error raised while processing
\* a feature, this.vertices and this.faces are again the lists they were
\* when the call began, with the same contents.
C24_ArenaRestoredAtEveryExit ==
    [][ /\ heap'[ArenaFound] = heap[ArenaFound]
        /\ layerCall'.pc \in {"returned", "threw"} => thisArena' = ArenaFound ]_vars

\* the part of C24 that holds: the early return and the normal completion
ArenaRestoredAtReturn ==
    [][ /\ heap'[ArenaFound] = heap[ArenaFound]
        /\ layerCall'.pc = "returned" => thisArena' = ArenaFound ]_vars

\* the call n of generate() ends in this step
Ends(n) == runs[n].pc # "done" /\ runs'[n].pc = "done"

\* C25: when several generation runs were started (button click or timer)
\* and all have finished, the stored STL content, filename and per-layer
\* results are those of the most recently started run: a run that ends
\* after a run started later has ended leaves the stored results alone.
C25_EarlierRunNeverOverwrites ==
    [][ \A n \in 1..Len(runs) :
            (Ends(n) /\ \E m \in (n + 1)..Len(runs) : runs[m].pc = "done") =>
                generated' = generated ]_vars

\* a run that ends while no run started later has ended
LatestRunStores ==
    [][ \A n \in 1..Len(runs) :
            (Ends(n) /\ Cardinality(InFlight) = 1 /\ runs'[n].outcome = "success") =>
                generated' # GeneratedNothing ]_vars

----------------------------------------------------------------------------
(* Claims about the debounce of auto-generation, checked under SpecDebounce *)

\* the input events so far form one burst that is over: each followed the
\* one before by less than 1.5 s, and no timer is pending
BurstOver ==
    /\ burst.changes > 0
    /\ ~burst.broken
    /\ ~timers.autoGenerate.pending
    /\ \A id \in BBoxInputs : ~timers.bbox[id].pending
    /\ burst.quiet > DebounceTenths + BBoxDebounceTenths

\* C26: with auto-generate enabled, a burst of parameter changes, each less
\* than 1.5 s after the one before, starts exactly one generation run, 1.5 s
\* after the last change of the burst; with auto-generate disabled,
\* parameter changes start no run.
C26_BurstStartsOneRun ==
    /\ ~form.autoGenerate => Len(runs) = 0
    /\ (form.autoGenerate /\ ~burst.broken) =>
           /\ Len(runs) <= 1
           /\ \A k \in 1..Len(burst.startedAfter) :
                  burst.startedAfter[k] = DebounceTenths
           /\ BurstOver => Len(runs) = 1

\* the part of C26 that holds: bursts on the inputs that call
\* onParameterChange directly
C26ForDirectInputs == ~burst.bbox => C26_BurstStartsOneRun

----------------------------------------------------------------------------
(* Claims about the roads of a layer build, checked under SpecLayer *)

RoadsReturned ==
    /\ layerCall.pc = "returned"
    /\ layerCall.layerType = "roads"

\* the quads of one feature of the roads layer
QuadsOfRoad(f, feature) ==
    IF feature.type = "LineString" /\ Len(feature.coordinates) >= 2
    THEN bufferLineString(mapToModel(f.projection, feature.coordinates),
                          f.config.roadWidth)
    ELSE <<>>

\* the quads of the features lo..hi, in order
RECURSIVE QuadsOfRoads(_, _, _)
QuadsOfRoads(f, lo, hi) ==
    IF lo > hi THEN <<>>
    ELSE IF lo = hi THEN QuadsOfRoad(f, f.features[lo])
    ELSE QuadsOfRoads(f, lo, (lo + hi) \div 2)
            \o QuadsOfRoads(f, ((lo + hi) \div 2) + 1, hi)

InsideWidened(f, corner) ==
    \A axis \in 1..2 :
        /\ corner[axis] >= 0 - f.config.roadWidth
        /\ corner[axis] <= f.projection.baseSize + f.config.roadWidth

RemainingCorners(f, quad) == SelectSeq(quad, LAMBDA c : InsideWidened(f, c))

\* the triangulated prism over the remaining corners of one quad, on its own
PrismOfQuad(f, quad) ==
    IF Len(RemainingCorners(f, quad)) >= 3
    THEN addPrismFromPolygonTriangulated(<<>>, <<>>, RemainingCorners(f, quad),
                                         f.config.baseThickness + 2,
                                         f.config.baseThickness + 2 + f.config.roadHeight)
    ELSE Mesh(<<>>, <<>>)

RECURSIVE VerticesOfQuads(_, _, _, _)
VerticesOfQuads(f, quads, lo, hi) ==
    IF lo > hi THEN <<>>
    ELSE IF lo = hi THEN PrismOfQuad(f, quads[lo]).vertices
    ELSE VerticesOfQuads(f, quads, lo, (lo + hi) \div 2)
            \o VerticesOfQuads(f, quads, ((lo + hi) \div 2) + 1, hi)

RECURSIVE FaceCountOfQuads(_, _, _, _)
FaceCountOfQuads(f, quads, lo, hi) ==
    IF lo > hi THEN 0
    ELSE IF lo = hi THEN Len(PrismOfQuad(f, quads[lo]).faces)
    ELSE FaceCountOfQuads(f, quads, lo, (lo + hi) \div 2)
            + FaceCountOfQuads(f, quads, ((lo + hi) \div 2) + 1, hi)

RoadsAreQuadByQuad(f, quads) ==
    /\ heap[f.returned].vertices = VerticesOfQuads(f, quads, 1, Len(quads))
    /\ Len(heap[f.returned].faces) = FaceCountOfQuads(f, quads, 1, Len(quads))

\* C27: for each buffered road quad, the corners outside
\* [-roadWidth, baseSize + roadWidth] on either axis are dropped from that
\* quad only; the quad is extruded, with the triangulated prism builder over
\* its remaining corners, exactly when at least 3 corners remain, and
\* dropping or skipping one quad never removes the other quads of the road.
C27_RoadQuadsFilteredOneByOne ==
    RoadsReturned =>
        At(QuadsOfRoads(layerCall, 1, Len(layerCall.features)),
           LAMBDA quads : RoadsAreQuadByQuad(layerCall, quads))

\* a road whose first quad is skipped, whose second loses one corner and
\* whose third is whole: two prisms, of 3 and of 4 corners
C27_Witness ==
    /\ RoadsReturned
    /\ layerCall.features = <<RoadInward>>
    /\ Len(heap[layerCall.returned].vertices) = 6 + 8
    /\ Len(heap[layerCall.returned].faces) = 8 + 12

----------------------------------------------------------------------------
(* Claims about the buffering of a line, checked under SpecPure *)

BufferReturned ==
    /\ pureCall.op = "bufferLineString"
    /\ pureCall.pc = "returned"

\* twice the tangent of bufferLineString at point i: the next segment at the
\* first point, the previous one at the last, the sum of both in between
TwiceTangent(coords, i) ==
    LET from == IF i = 1 THEN coords[1] ELSE coords[i - 1]
        to   == IF i = Len(coords) THEN coords[i] ELSE coords[i + 1]
        k    == IF i = 1 \/ i = Len(coords) THEN 2 ELSE 1
    IN  <<k * (to[1] - from[1]), k * (to[2] - from[2])>>

\* the input points whose tangent length is not below 1e-10, in input order
KeptPoints(coords) ==
    SelectSeq([i \in 1..Len(coords) |-> i],
              LAMBDA i : TwiceTangent(coords, i) # <<0, 0>>)

\* left and right are the two offsets of the point, mirror images of each
\* other, left on the left of the direction of travel
OffsetsOf(coords, i, left, right) ==
    /\ left[1] + right[1] = 2 * coords[i][1]
    /\ left[2] + right[2] = 2 * coords[i][2]
    /\ (TwiceTangent(coords, i)[1] * (left[2] - coords[i][2]))
          - (TwiceTangent(coords, i)[2] * (left[1] - coords[i][1])) >= 0

QuadsOverKeptPoints(coords, kept, quads) ==
    /\ Len(quads) = (IF Len(kept) > 0 THEN Len(kept) - 1 ELSE 0)
    /\ \A i \in 1..Len(quads) :
          /\ Len(quads[i]) = 4
          /\ OffsetsOf(coords, kept[i], quads[i][1], quads[i][2])
          /\ OffsetsOf(coords, kept[i + 1], quads[i][4], quads[i][3])
          /\ i > 1 => /\ quads[i][1] = quads[i - 1][4]
                      /\ quads[i][2] = quads[i - 1][3]

\* C28: bufferLineString returns no quads for fewer than 2 points; otherwise,
\* with k the number of input points whose tangent length is not below 1e-10,
\* it returns exactly max(k-1, 0) quads, the i-th being
\* (left[i], right[i], right[i+1], left[i+1]) over the kept points in input
\* order, each quad having exactly 4 corners.
C28_OneQuadPerPairOfKeptPoints ==
    BufferReturned =>
        IF Len(pureCall.coords) < 2 THEN pureCall.result = <<>>
        ELSE QuadsOverKeptPoints(pureCall.coords, KeptPoints(pureCall.coords),
                                 pureCall.result)

\* a line whose second point is skipped (its two segments cancel): 3 of the
\* 4 points are kept and 2 quads are returned
C28_Witness ==
    /\ BufferReturned
    /\ pureCall.coords = << <<0, 0>>, <<600, 0>>, <<0, 0>>, <<0, 800>> >>
    /\ pureCall.width = 200
    /\ KeptPoints(pureCall.coords) = <<1, 3, 4>>
    /\ Len(pureCall.result) = 2
    /\ pureCall.result[1][1] = <<0, 100>>

----------------------------------------------------------------------------
(* Claims about height tags given as strings, checked under SpecPure *)

HeightAttrs == <<"height", "building:height", "building:levels">>

HeightReturned ==
    /\ pureCall.op = "getBuildingHeight"
    /\ pureCall.pc = "returned"

BeginsWithDecimal(chars) == Len(chars) > 0 /\ IsDigit(chars[1])

\* the k-th height tag is a string and the tags before it are absent
StringTagDecides(tags, k) ==
    /\ tags[HeightAttrs[k]].kind = "string"
    /\ \A j \in 1..(k - 1) : tags[HeightAttrs[j]] = Undef

\* the height of the feature without its k-th height tag
HeightWithoutTag(feature, k, defaultHeight) ==
    getBuildingHeight([feature EXCEPT !.tags[HeightAttrs[k]] = Undef], defaultHeight)

StringTagParsedFromItsStart(call, k) ==
    LET value == call.feature.tags[HeightAttrs[k]]
    IN  IF BeginsWithDecimal(value.chars)
        THEN call.result = parseFloatOf(value.chars, heightMatch(value.chars))
        ELSE call.result = HeightWithoutTag(call.feature, k, call.defaultHeight)

\* C29: a height tag given as a string is parsed as a number only when the
\* string begins with a decimal number, and then yields that leading number;
\* a string that does not begin with a decimal number yields no height from
\* that tag and the result falls through to the default height.
C29_OnlyLeadingNumberIsParsed ==
    HeightReturned =>
        \A k \in 1..Len(HeightAttrs) :
            StringTagDecides(pureCall.feature.tags, k) =>
                StringTagParsedFromItsStart(pureCall, k)

\* the part of C29 that holds: a string that begins with a decimal number
\* gives that number, a string that holds no digit gives no height
NoInnerNumber(value) ==
    value.kind = "string" =>
        BeginsWithDecimal(value.chars) \/ ~heightMatch(value.chars).matched

LeadingNumberIsParsed ==
    HeightReturned =>
        \A k \in 1..Len(HeightAttrs) :
            (/\ StringTagDecides(pureCall.feature.tags, k)
             /\ NoInnerNumber(pureCall.feature.tags[HeightAttrs[k]]))
                => StringTagParsedFromItsStart(pureCall, k)

----------------------------------------------------------------------------
(* Claims about rings of fewer than 3 points, checked under Spec *)

FewerThanThreePoints(op) ==
    /\ last.op = op
    /\ PointCount(last.coords) < 3

ArenaUnchanged == vertices = prevVertices /\ faces = prevFaces

\* C30: addPrismFromPolygon appends nothing when the ring has fewer than 3
\* points after its duplicated closing point is dropped (for example a closed
\* ring A, B, A), just as addPrismFromPolygonTriangulated rejects such rings;
\* the arena is left unchanged.
C30_TooFewPointsAppendNothing ==
    /\ FewerThanThreePoints("addPrismFromPolygon") => ArenaUnchanged
    /\ FewerThanThreePoints("addPrismFromPolygonTriangulated") => ArenaUnchanged

\* the part of C30 that holds: the triangulated builder rejects such rings,
\* and addPrismFromPolygon rejects the rings given with fewer than 3 entries
TooFewEntriesAppendNothing ==
    /\ (last.op = "addPrismFromPolygon" /\ Len(last.coords) < 3) => ArenaUnchanged
    /\ FewerThanThreePoints("addPrismFromPolygonTriangulated") => ArenaUnchanged

====
